---- MODULE Spec2Model ----
(***************************************************************************)
(* The shopping cart of ecommerce-cart: the cart reducer and the useCart   *)
(* hook (hooks/useCart), the totals calculator and the promo validator     *)
(* (utils/cartCalculations, utils/currency).                               *)
(*                                                                         *)
(* Representation.                                                         *)
(*  - A monetary number is an integer count of 1/100 cent, so that the     *)
(*    product subtotal * value / 100 of a whole-cent subtotal and a whole  *)
(*    percentage is exact and roundToTwoDecimals has something to round.   *)
(*    The arithmetic is exact decimal arithmetic. On the prices, quantities*)
(*    and discounts of this model no intermediate value falls on a half    *)
(*    cent, where IEEE doubles can round either way, so the values are     *)
(*    those the doubles of the code give.  Values on a half cent are       *)
(*    computed in the doubles themselves, bit by bit, in the section on    *)
(*    rounding.                                                            *)
(*  - A string is a sequence of one-character strings, so that trim and    *)
(*    toUpperCase are computed and not assumed.                            *)
(*  - null is the record [type |-> "null"].                                *)
(*  - An omitted optional argument is the empty sequence, a given one a    *)
(*    one-element sequence.                                                *)
(***************************************************************************)
EXTENDS Integers, Sequences, FiniteSets, TLC

VARIABLES
    state,   \* the CartState held by useReducer: [items, appliedPromoCode]
    totals,  \* the useMemo'd calculateCartTotals(state) the hook returns
    prev,    \* the CartState the last call was made on
    last,    \* the last call of a hook operation, its dispatches and result
    input,   \* the arguments a function checked on its own is called with
    output,  \* what that function returned
    event,   \* the last event a component's handler was called for
    row,     \* a mounted CartItemRow: its inputValue and lastCommittedValue
    heap,    \* the objects the reducer has allocated, by address
    ui       \* the mounted components of the cart: its rows and promo form,
             \* and the text last typed into the promo code input

vars == <<state, totals, prev, last, input, output, event, row, heap, ui>>

\* the variables the hook's operations leave alone
outside == <<input, output, event, row, heap, ui>>

----------------------------------------------------------------------------
(* Bounds of the model *)

\* product identifiers are 1..MaxProductId
MaxProductId == 2
\* the largest quantity a call may carry and a line may reach
MaxQuantity == 3
\* the longest code string validatePromoCode is tried on, letter by letter
MaxCodeLen == 3
\* the reducer allocates while the heap holds fewer objects than this
MaxHeapSize == 6

----------------------------------------------------------------------------
(* Strings *)

Lower == <<"a","b","c","d","e","f","g","h","i","j","k","l","m",
           "n","o","p","q","r","s","t","u","v","w","x","y","z">>
Upper == <<"A","B","C","D","E","F","G","H","I","J","K","L","M",
           "N","O","P","Q","R","S","T","U","V","W","X","Y","Z">>

WhiteSpace == {" ", "\t", "\n"}

\* String.prototype.toUpperCase, one character
toUpperChar(c) ==
    IF \E i \in 1..Len(Lower) : Lower[i] = c
    THEN Upper[CHOOSE i \in 1..Len(Lower) : Lower[i] = c]
    ELSE c

\* String.prototype.toUpperCase
toUpperCase(s) == [i \in 1..Len(s) |-> toUpperChar(s[i])]

RECURSIVE trimStart(_)
trimStart(s) ==
    IF s # <<>> /\ Head(s) \in WhiteSpace THEN trimStart(Tail(s)) ELSE s

RECURSIVE trimEnd(_)
trimEnd(s) ==
    IF s # <<>> /\ s[Len(s)] \in WhiteSpace
    THEN trimEnd(SubSeq(s, 1, Len(s) - 1))
    ELSE s

\* String.prototype.trim
trim(s) == trimEnd(trimStart(s))

Digits == <<"0","1","2","3","4","5","6","7","8","9">>

IsDigit(c) == \E i \in 1..Len(Digits) : Digits[i] = c

DigitValue(c) == (CHOOSE i \in 1..Len(Digits) : Digits[i] = c) - 1

\* the number of digits s starts with
LeadingDigits(s) ==
    CHOOSE n \in 0..Len(s) :
        /\ \A i \in 1..n : IsDigit(s[i])
        /\ n < Len(s) => ~IsDigit(s[n + 1])

RECURSIVE DecimalValue(_)
\* the value of a string of digits
DecimalValue(s) ==
    IF s = <<>> THEN 0
    ELSE 10 * DecimalValue(SubSeq(s, 1, Len(s) - 1)) + DigitValue(s[Len(s)])

\* s without its first n characters
Drop(s, n) == SubSeq(s, n + 1, Len(s))

\* a number parsed from a string is <<n>>, and NaN is <<>>
NaN == <<>>

isNaN(n) == n = NaN

\* parseInt(s, 10): leading whitespace, an optional sign, then the longest
\* run of digits; what follows the digits is ignored; NaN without a digit
parseInt(s) ==
    LET t == trimStart(s)
        signed == t # <<>> /\ Head(t) \in {"+", "-"}
        u == IF signed THEN Tail(t) ELSE t
        n == LeadingDigits(u)
        v == DecimalValue(SubSeq(u, 1, n))
    IN  IF n = 0 THEN NaN
        ELSE IF signed /\ Head(t) = "-" THEN <<0 - v>> ELSE <<v>>

RECURSIVE toString(_)
\* Number.prototype.toString of an integer
toString(n) ==
    IF n < 0 THEN <<"-">> \o toString(0 - n)
    ELSE IF n < 10 THEN <<Digits[n + 1]>>
    ELSE toString(n \div 10) \o <<Digits[(n % 10) + 1]>>

\* the parts of a string read as a floating-point number: an optional "-",
\* digits, an optional "." and digits, an optional exponent, and the rest
FloatParts(s) ==
    LET negative == s # <<>> /\ Head(s) = "-"
        s1 == IF negative THEN Tail(s) ELSE s
        i == LeadingDigits(s1)
        s2 == Drop(s1, i)
        hasFraction == s2 # <<>> /\ Head(s2) = "."
        f == IF hasFraction THEN LeadingDigits(Tail(s2)) ELSE 0
        s3 == IF hasFraction THEN Drop(s2, 1 + f) ELSE s2
        hasExponent == s3 # <<>> /\ Head(s3) \in {"e", "E"}
        s4 == IF hasExponent THEN Tail(s3) ELSE s3
        expSigned == hasExponent /\ s4 # <<>> /\ Head(s4) \in {"+", "-"}
        s5 == IF expSigned THEN Tail(s4) ELSE s4
        x == IF hasExponent THEN LeadingDigits(s5) ELSE 0
    IN  [negative |-> negative,
         integer |-> SubSeq(s1, 1, i),
         hasFraction |-> hasFraction,
         fraction |-> IF hasFraction THEN SubSeq(s2, 2, 1 + f) ELSE <<>>,
         hasExponent |-> hasExponent,
         expNegative |-> expSigned /\ Head(s4) = "-",
         exponent |-> SubSeq(s5, 1, x),
         rest |-> Drop(s5, x)]

\* a valid floating-point number of HTML: what an input of type "number"
\* accepts as its value
IsValidFloatingPointNumber(s) ==
    LET p == FloatParts(s)
    IN  /\ p.integer # <<>> \/ p.hasFraction
        /\ p.hasFraction => p.fraction # <<>>
        /\ p.hasExponent => p.exponent # <<>>
        /\ p.rest = <<>>

----------------------------------------------------------------------------
(* Money: utils/currency *)

\* 1 cent, in the model's unit of 1/100 cent (the 100 of roundToTwoDecimals)
Cent == 100

\* Math.round: the nearest integer, a half going up; n / d with d > 0
MathRound(n, d) == (2 * n + d) \div (2 * d)

\* roundToTwoDecimals(value) = Math.round(value * 100) / 100
roundToTwoDecimals(value) == MathRound(value, Cent) * Cent

Min(a, b) == IF a <= b THEN a ELSE b
Max(a, b) == IF a >= b THEN a ELSE b

----------------------------------------------------------------------------
(* Data: types, the products and promo codes the calls are made with *)

null == [type |-> "null"]

ProductIds == 1..MaxProductId

\* unit prices of the products used: 10.99 and 5.00 (the fixtures of
\* cartLogic.test), then 5.99, 0 and 3.33
PriceOf(id) ==
    CASE id = 1 -> 1099 * Cent
      [] id = 2 -> 500 * Cent
      [] id = 3 -> 599 * Cent
      [] id = 4 -> 0
      [] OTHER  -> 333 * Cent

NameOf(id) ==
    CASE id = 1 -> "Test Product"
      [] id = 2 -> "Cheap"
      [] id = 3 -> "Product 2"
      [] OTHER  -> "Decimal"

\* interface Product
Product(id) == [id |-> id, name |-> NameOf(id), price |-> PriceOf(id)]

Products == {Product(id) : id \in ProductIds}

SAVE15 == <<"S","A","V","E","1","5">>
SAVE10 == <<"S","A","V","E","1","0">>

\* data.ts PROMO_CODES
PROMO_CODES ==
    << [code |-> SAVE15,
        discount |-> [type |-> "percentage", value |-> 15],
        displayText |-> "15% off"],
       [code |-> SAVE10,
        discount |-> [type |-> "fixed", value |-> 1000 * Cent],
        displayText |-> "$10 off"] >>

\* the catalogs applyPromoCode is called with: App passes PROMO_CODES
Catalogs == {PROMO_CODES}

\* the code strings applyPromoCode is called with
InputCodes ==
    { SAVE15,
      <<" ","s","a","v","e","1","5"," ">>,
      <<"s","a","v","e","1","0">>,
      <<"I","N","V","A","L","I","D">>,
      <<>> }

----------------------------------------------------------------------------
(* utils/cartCalculations *)

\* calculateItemSubtotal without the quantity: the unit price alone
calculateItemSubtotal_unitPrice(item) ==
    roundToTwoDecimals(item.product.price)

\* calculateItemSubtotal
calculateItemSubtotal(item) ==
    roundToTwoDecimals(item.product.price * item.quantity)

\* calculateDiscountAmount without the Math.min(discountAmount, subtotal) cap
calculateDiscountAmount_uncapped(subtotal, discount) ==
    IF discount = null THEN 0
    ELSE roundToTwoDecimals(
             IF discount.type = "percentage"
             THEN (subtotal * discount.value) \div 100
             ELSE discount.value)

\* calculateDiscountAmount without the final roundToTwoDecimals
calculateDiscountAmount_unrounded(subtotal, discount) ==
    IF discount = null THEN 0
    ELSE LET discountAmount ==
                 IF discount.type = "percentage"
                 THEN (subtotal * discount.value) \div 100
                 ELSE discount.value
         IN  Min(discountAmount, subtotal)

\* calculateDiscountAmount with Math.max in place of Math.min in the cap
calculateDiscountAmount_max(subtotal, discount) ==
    IF discount = null THEN 0
    ELSE LET discountAmount ==
                 IF discount.type = "percentage"
                 THEN (subtotal * discount.value) \div 100
                 ELSE discount.value
         IN  roundToTwoDecimals(Max(discountAmount, subtotal))

\* calculateDiscountAmount
calculateDiscountAmount(subtotal, discount) ==
    IF discount = null THEN 0
    ELSE LET discountAmount ==
                 IF discount.type = "percentage"
                 THEN (subtotal * discount.value) \div 100
                 ELSE discount.value
         IN  roundToTwoDecimals(Min(discountAmount, subtotal))

RECURSIVE SumSubtotals(_)
\* items.reduce((sum, item) => sum + calculateItemSubtotal(item), 0)
SumSubtotals(items) ==
    IF items = <<>> THEN 0
    ELSE SumSubtotals(SubSeq(items, 1, Len(items) - 1))
         + calculateItemSubtotal(items[Len(items)])

RECURSIVE calculateItemCount(_)
\* calculateItemCount: items.reduce((count, item) => count + item.quantity, 0)
calculateItemCount(items) ==
    IF items = <<>> THEN 0
    ELSE calculateItemCount(SubSeq(items, 1, Len(items) - 1))
         + items[Len(items)].quantity

\* state.appliedPromoCode?.discount ?? null
DiscountOf(promoCode) ==
    IF promoCode = null THEN null ELSE promoCode.discount

\* calculateCartTotals with Math.min in place of Math.max in the total
calculateCartTotals_minZero(s) ==
    LET subtotal == roundToTwoDecimals(SumSubtotals(s.items))
        discountAmount ==
            calculateDiscountAmount(subtotal, DiscountOf(s.appliedPromoCode))
        total == roundToTwoDecimals(Min(0, subtotal - discountAmount))
        itemCount == calculateItemCount(s.items)
    IN  [subtotal |-> subtotal,
         discountAmount |-> discountAmount,
         total |-> total,
         itemCount |-> itemCount]

\* calculateCartTotals
calculateCartTotals(s) ==
    LET subtotal == roundToTwoDecimals(SumSubtotals(s.items))
        discountAmount ==
            calculateDiscountAmount(subtotal, DiscountOf(s.appliedPromoCode))
        total == roundToTwoDecimals(Max(0, subtotal - discountAmount))
        itemCount == calculateItemCount(s.items)
    IN  [subtotal |-> subtotal,
         discountAmount |-> discountAmount,
         total |-> total,
         itemCount |-> itemCount]

\* validatePromoCode without the trim
validatePromoCode_noTrim(code, availableCodes) ==
    LET normalizedCode == toUpperCase(code)
        found == {i \in 1..Len(availableCodes) :
                      availableCodes[i].code = normalizedCode}
    IN  IF found = {} THEN null
        ELSE availableCodes[CHOOSE i \in found : \A j \in found : i <= j]

\* validatePromoCode matching a code that starts with the normalized input
validatePromoCode_startsWith(code, availableCodes) ==
    LET normalizedCode == toUpperCase(trim(code))
        n == Len(normalizedCode)
        found == {i \in 1..Len(availableCodes) :
                      /\ n <= Len(availableCodes[i].code)
                      /\ SubSeq(availableCodes[i].code, 1, n) = normalizedCode}
    IN  IF found = {} THEN null
        ELSE availableCodes[CHOOSE i \in found : \A j \in found : i <= j]

\* validatePromoCode
validatePromoCode(code, availableCodes) ==
    LET normalizedCode == toUpperCase(trim(code))
        found == {i \in 1..Len(availableCodes) :
                      availableCodes[i].code = normalizedCode}
    IN  IF found = {} THEN null
        ELSE availableCodes[CHOOSE i \in found : \A j \in found : i <= j]

----------------------------------------------------------------------------
(* hooks/useCart: the reducer *)

initialState == [items |-> <<>>, appliedPromoCode |-> null]

\* Array.prototype.findIndex on the product id: 0-based, -1 when absent
findIndex(items, productId) ==
    LET found == {i \in 1..Len(items) : items[i].product.id = productId}
    IN  IF found = {} THEN -1
        ELSE (CHOOSE i \in found : \A j \in found : i <= j) - 1

RECURSIVE filterOut(_, _)
\* items.filter((item) => item.product.id !== productId)
filterOut(items, productId) ==
    IF items = <<>> THEN <<>>
    ELSE IF Head(items).product.id # productId
         THEN <<Head(items)>> \o filterOut(Tail(items), productId)
         ELSE filterOut(Tail(items), productId)

\* ADD_ITEM without the findIndex lookup: every add appends a line
ADD_ITEM_append(s, payload) ==
    [s EXCEPT !.items =
        Append(s.items, [product |-> payload.product,
                         quantity |-> payload.quantity])]

\* ADD_ITEM storing the given quantity on the existing line, not the sum
ADD_ITEM_overwrite(s, payload) ==
    IF findIndex(s.items, payload.product.id) >= 0
    THEN [s EXCEPT !.items =
             [i \in 1..Len(s.items) |->
                 IF i - 1 = findIndex(s.items, payload.product.id)
                 THEN [s.items[i] EXCEPT !.quantity = payload.quantity]
                 ELSE s.items[i]]]
    ELSE [s EXCEPT !.items =
             Append(s.items, [product |-> payload.product,
                              quantity |-> payload.quantity])]

\* ADD_ITEM that puts the line of a new product first: [{...}, ...state.items]
ADD_ITEM_prepend(s, payload) ==
    LET product == payload.product
        quantity == payload.quantity
        existingIndex == findIndex(s.items, product.id)
    IN  IF existingIndex >= 0
        THEN [s EXCEPT !.items =
                 [i \in 1..Len(s.items) |->
                     IF i - 1 = existingIndex
                     THEN [s.items[i] EXCEPT
                               !.quantity = s.items[i].quantity + quantity]
                     ELSE s.items[i]]]
        ELSE [s EXCEPT !.items =
                 <<[product |-> product, quantity |-> quantity]>> \o s.items]

\* case "ADD_ITEM"
ADD_ITEM(s, payload) ==
    LET product == payload.product
        quantity == payload.quantity
        existingIndex == findIndex(s.items, product.id)
    IN  IF existingIndex >= 0
        THEN [s EXCEPT !.items =
                 [i \in 1..Len(s.items) |->
                     IF i - 1 = existingIndex
                     THEN [s.items[i] EXCEPT
                               !.quantity = s.items[i].quantity + quantity]
                     ELSE s.items[i]]]
        ELSE [s EXCEPT !.items =
                 Append(s.items, [product |-> product, quantity |-> quantity])]

\* REMOVE_ITEM by items.splice(findIndex(...), 1): an absent id gives
\* splice(-1, 1), which drops the last line
REMOVE_ITEM_splice(s, payload) ==
    LET index == findIndex(s.items, payload.productId)
        at == IF index >= 0 THEN index + 1 ELSE Len(s.items)
    IN  [s EXCEPT !.items =
            [i \in 1..(IF Len(s.items) = 0 THEN 0 ELSE Len(s.items) - 1) |->
                IF i < at THEN s.items[i] ELSE s.items[i + 1]]]

\* REMOVE_ITEM dropping the applied promo with the last line
REMOVE_ITEM_dropPromoWhenEmpty(s, payload) ==
    LET items == filterOut(s.items, payload.productId)
    IN  [items |-> items,
         appliedPromoCode |->
             IF items = <<>> THEN null ELSE s.appliedPromoCode]

\* REMOVE_ITEM taking one unit off the line, and the line with its last unit
REMOVE_ITEM_oneUnit(s, payload) ==
    LET index == findIndex(s.items, payload.productId)
    IN  IF index >= 0 /\ s.items[index + 1].quantity > 1
        THEN [s EXCEPT !.items[index + 1].quantity = @ - 1]
        ELSE [s EXCEPT !.items = filterOut(s.items, payload.productId)]

\* case "REMOVE_ITEM"
REMOVE_ITEM(s, payload) ==
    [s EXCEPT !.items = filterOut(s.items, payload.productId)]

\* UPDATE_QUANTITY removing on quantity < 0 only: 0 is stored
UPDATE_QUANTITY_negativeOnly(s, payload) ==
    IF payload.quantity < 0
    THEN [s EXCEPT !.items = filterOut(s.items, payload.productId)]
    ELSE [s EXCEPT !.items =
             [i \in 1..Len(s.items) |->
                 IF s.items[i].product.id = payload.productId
                 THEN [s.items[i] EXCEPT !.quantity = payload.quantity]
                 ELSE s.items[i]]]

\* UPDATE_QUANTITY removing on quantity === 0 only: a negative one is stored
UPDATE_QUANTITY_zeroOnly(s, payload) ==
    IF payload.quantity = 0
    THEN [s EXCEPT !.items = filterOut(s.items, payload.productId)]
    ELSE [s EXCEPT !.items =
             [i \in 1..Len(s.items) |->
                 IF s.items[i].product.id = payload.productId
                 THEN [s.items[i] EXCEPT !.quantity = payload.quantity]
                 ELSE s.items[i]]]

\* UPDATE_QUANTITY adding the quantity to the line's, as ADD_ITEM does
UPDATE_QUANTITY_additive(s, payload) ==
    IF payload.quantity <= 0
    THEN [s EXCEPT !.items = filterOut(s.items, payload.productId)]
    ELSE [s EXCEPT !.items =
             [i \in 1..Len(s.items) |->
                 IF s.items[i].product.id = payload.productId
                 THEN [s.items[i] EXCEPT
                           !.quantity = s.items[i].quantity + payload.quantity]
                 ELSE s.items[i]]]

\* case "UPDATE_QUANTITY"
UPDATE_QUANTITY(s, payload) ==
    LET productId == payload.productId
        quantity == payload.quantity
    IN  IF quantity <= 0
        THEN [s EXCEPT !.items = filterOut(s.items, productId)]
        ELSE [s EXCEPT !.items =
                 [i \in 1..Len(s.items) |->
                     IF s.items[i].product.id = productId
                     THEN [s.items[i] EXCEPT !.quantity = quantity]
                     ELSE s.items[i]]]

\* APPLY_PROMO keeping a promo that is already applied
APPLY_PROMO_keepFirst(s, payload) ==
    IF s.appliedPromoCode # null THEN s
    ELSE [s EXCEPT !.appliedPromoCode = payload.promoCode]

\* case "APPLY_PROMO"
APPLY_PROMO(s, payload) ==
    [s EXCEPT !.appliedPromoCode = payload.promoCode]

\* REMOVE_PROMO returning initialState, as CLEAR_CART does
REMOVE_PROMO_initialState(s) == initialState

\* case "REMOVE_PROMO"
REMOVE_PROMO(s) ==
    [s EXCEPT !.appliedPromoCode = null]

\* CLEAR_CART emptying the items only: { ...state, items: [] }
CLEAR_CART_itemsOnly(s) == [s EXCEPT !.items = <<>>]

\* case "CLEAR_CART"
CLEAR_CART(s) == initialState

\* cartReducer
cartReducer(s, action) ==
    CASE action.type = "ADD_ITEM"        -> ADD_ITEM(s, action.payload)
      [] action.type = "REMOVE_ITEM"     -> REMOVE_ITEM(s, action.payload)
      [] action.type = "UPDATE_QUANTITY" -> UPDATE_QUANTITY(s, action.payload)
      [] action.type = "APPLY_PROMO"     -> APPLY_PROMO(s, action.payload)
      [] action.type = "REMOVE_PROMO"    -> REMOVE_PROMO(s)
      [] action.type = "CLEAR_CART"      -> CLEAR_CART(s)

----------------------------------------------------------------------------------------------------------------------------------------
(* hooks/useCart: the hook *)

RECURSIVE Reduce(_, _)
\* the state after the dispatches of one call, in order
Reduce(s, actions) ==
    IF actions = <<>> THEN s
    ELSE Reduce(cartReducer(s, Head(actions)), Tail(actions))

\* useCart's isEmpty: state.items.length === 0
isEmpty(s) == Len(s.items) = 0

\* the hook with totals memoized on nothing that changes: the totals of the
\* state before the dispatch
Call_staleTotals(op, args, actions, result) ==
    /\ state' = Reduce(state, actions)
    /\ totals' = calculateCartTotals(state)
    /\ last' = [op |-> op, args |-> args, actions |-> actions,
                result |-> result]

\* One call of a hook operation: its dispatches go through the reducer, the
\* component renders again and useMemo recomputes the totals.
Call(op, args, actions, result) ==
    /\ state' = Reduce(state, actions)
    /\ totals' = calculateCartTotals(state')
    /\ last' = [op |-> op, args |-> args, actions |-> actions,
                result |-> result]

\* the quantity parameter's default: quantity: number = 1
quantityOrDefault(qarg) == IF qarg = <<>> THEN 1 ELSE qarg[1]

\* useCart.addItem(product, quantity = 1)
addItem(product, qarg) ==
    Call("addItem", [product |-> product, quantity |-> qarg],
         << [type |-> "ADD_ITEM",
             payload |-> [product |-> product,
                          quantity |-> quantityOrDefault(qarg)]] >>,
         null)

\* useCart.removeItem(productId)
removeItem(productId) ==
    Call("removeItem", [productId |-> productId],
         << [type |-> "REMOVE_ITEM", payload |-> [productId |-> productId]] >>,
         null)

\* useCart.updateQuantity(productId, quantity)
updateQuantity(productId, quantity) ==
    Call("updateQuantity", [productId |-> productId, quantity |-> quantity],
         << [type |-> "UPDATE_QUANTITY",
             payload |-> [productId |-> productId, quantity |-> quantity]] >>,
         null)

\* applyPromoCode dispatching REMOVE_PROMO when the code does not validate
applyPromoCode_clearOnFail(code, availableCodes) ==
    LET validCode == validatePromoCode(code, availableCodes)
    IN  IF validCode # null
        THEN Call("applyPromoCode",
                  [code |-> code, availableCodes |-> availableCodes],
                  << [type |-> "APPLY_PROMO",
                      payload |-> [promoCode |-> validCode]] >>,
                  TRUE)
        ELSE Call("applyPromoCode",
                  [code |-> code, availableCodes |-> availableCodes],
                  << [type |-> "REMOVE_PROMO"] >>, FALSE)

\* useCart.applyPromoCode(code, availableCodes)
applyPromoCode(code, availableCodes) ==
    LET validCode == validatePromoCode(code, availableCodes)
    IN  IF validCode # null
        THEN Call("applyPromoCode",
                  [code |-> code, availableCodes |-> availableCodes],
                  << [type |-> "APPLY_PROMO",
                      payload |-> [promoCode |-> validCode]] >>,
                  TRUE)
        ELSE Call("applyPromoCode",
                  [code |-> code, availableCodes |-> availableCodes],
                  <<>>, FALSE)

\* useCart.removePromoCode()
removePromoCode ==
    Call("removePromoCode", <<>>, << [type |-> "REMOVE_PROMO"] >>, null)

\* useCart.clearCart()
clearCart ==
    Call("clearCart", <<>>, << [type |-> "CLEAR_CART"] >>, null)

----------------------------------------------------------------------------
(* The calls a client of the hook makes *)

\* the quantity of the line of productId in items, 0 when there is none
QuantityIn(items, productId) ==
    IF findIndex(items, productId) >= 0
    THEN items[findIndex(items, productId) + 1].quantity
    ELSE 0

\* whether items holds a line of productId
Has(items, productId) == \E i \in 1..Len(items) : items[i].product.id = productId

\* quantity arguments of addItem within its contract: omitted, or positive
PositiveQuantityArgs == {<<>>} \cup {<<q>> : q \in 1..MaxQuantity}

\* quantity arguments of addItem outside its contract as well
AnyQuantityArgs == {<<>>} \cup {<<q>> : q \in (0 - MaxQuantity)..MaxQuantity}

\* quantities updateQuantity is called with: any integer
UpdateQuantities == (0 - 1)..MaxQuantity

\* the line's quantity stays within the bound of the model
WithinBound(product, qarg) ==
    LET q == QuantityIn(state.items, product.id) + quantityOrDefault(qarg)
    IN  q <= MaxQuantity /\ q >= 0 - MaxQuantity

AddItem ==
    \E product \in Products, qarg \in PositiveQuantityArgs :
        /\ WithinBound(product, qarg)
        /\ prev' = state
        /\ addItem(product, qarg)
        /\ UNCHANGED outside

AddItemAnyQuantity ==
    \E product \in Products, qarg \in AnyQuantityArgs :
        /\ WithinBound(product, qarg)
        /\ prev' = state
        /\ addItem(product, qarg)
        /\ UNCHANGED outside

RemoveItem ==
    \E productId \in ProductIds :
        /\ prev' = state
        /\ removeItem(productId)
        /\ UNCHANGED outside

UpdateQuantity ==
    \E productId \in ProductIds, quantity \in UpdateQuantities :
        /\ prev' = state
        /\ updateQuantity(productId, quantity)
        /\ UNCHANGED outside

ApplyPromoCode ==
    \E code \in InputCodes, availableCodes \in Catalogs :
        /\ prev' = state
        /\ applyPromoCode(code, availableCodes)
        /\ UNCHANGED outside

RemovePromoCode ==
    /\ prev' = state
    /\ removePromoCode
    /\ UNCHANGED outside

ClearCart ==
    /\ prev' = state
    /\ clearCart
    /\ UNCHANGED outside

NoCall == [op |-> "none", args |-> <<>>, actions |-> <<>>, result |-> null]

\* no handler of a component called yet
NoEvent == [handler |-> "none"]

\* useReducer(cartReducer, initialState)
Init ==
    /\ state = initialState
    /\ totals = calculateCartTotals(initialState)
    /\ prev = initialState
    /\ last = NoCall
    /\ input = null
    /\ output = null
    /\ event = NoEvent
    /\ row = null
    /\ heap = null
    /\ ui = null

Next ==
    \/ AddItem
    \/ RemoveItem
    \/ UpdateQuantity
    \/ ApplyPromoCode
    \/ RemovePromoCode
    \/ ClearCart

\* the hook, addItem called within its contract (quantity a positive integer)
Spec == Init /\ [][Next]_vars

NextAnyQuantity ==
    \/ AddItemAnyQuantity
    \/ RemoveItem
    \/ UpdateQuantity
    \/ ApplyPromoCode
    \/ RemovePromoCode
    \/ ClearCart

\* the hook, addItem called with any integer quantity
SpecAnyQuantity == Init /\ [][NextAnyQuantity]_vars

----------------------------------------------------------------------------
(* App: the product list's add-to-cart and the cart rows' remove, on the   *)
(* products of data.ts.                                                    *)

undefined == [type |-> "undefined"]

\* data.ts PRODUCTS
PRODUCTS ==
    << [id |-> 1, name |-> "Shampoo", price |-> 2499 * Cent],
       [id |-> 2, name |-> "Conditioner", price |-> 2499 * Cent],
       [id |-> 3, name |-> "Hair Color", price |-> 3499 * Cent],
       [id |-> 4, name |-> "Styling Serum", price |-> 1999 * Cent] >>

\* findProductById falling back to the first product
findProductById_orFirst(id) ==
    LET found == {i \in 1..Len(PRODUCTS) : PRODUCTS[i].id = id}
    IN  IF found = {} THEN PRODUCTS[1]
        ELSE PRODUCTS[CHOOSE i \in found : \A j \in found : i <= j]

\* data.ts findProductById: PRODUCTS.find(p => p.id === id)
findProductById(id) ==
    LET found == {i \in 1..Len(PRODUCTS) : PRODUCTS[i].id = id}
    IN  IF found = {} THEN undefined
        ELSE PRODUCTS[CHOOSE i \in found : \A j \in found : i <= j]

\* App.handleAddToCart(productId, quantity)
handleAddToCart(productId, quantity) ==
    LET product == findProductById(productId)
    IN  IF product = undefined
        THEN \* console.warn and return: no operation of the hook is called
             /\ last' = NoCall
             /\ UNCHANGED <<state, totals>>
        ELSE addItem(product, <<quantity>>)

\* the product ids a request may carry: those of PRODUCTS, and 0 and 5
RequestedProductIds == 0..(Len(PRODUCTS) + 1)

\* ProductList.handleAddToCart: onAddToCart(productId, 1)
HandleAddToCart ==
    \E productId \in RequestedProductIds :
        /\ QuantityIn(state.items, productId) + 1 <= MaxQuantity
        /\ prev' = state
        /\ event' = [handler |-> "handleAddToCart",
                     productId |-> productId, quantity |-> 1]
        /\ handleAddToCart(productId, 1)
        /\ UNCHANGED <<input, output, row, heap, ui>>

\* a cart row's remove button: onRemove(item.product.id), which is removeItem
OnRemove ==
    \E i \in 1..Len(state.items) :
        /\ prev' = state
        /\ event' = [handler |-> "onRemove",
                     productId |-> state.items[i].product.id]
        /\ removeItem(state.items[i].product.id)
        /\ UNCHANGED <<input, output, row, heap, ui>>

NextApp ==
    \/ HandleAddToCart
    \/ OnRemove

SpecApp == Init /\ [][NextApp]_vars

----------------------------------------------------------------------------
(* CartItemRow: the quantity input of the row of one cart line, with       *)
(* updateQuantity of the hook as its onUpdateQuantity.                     *)

\* the value an <input type="number"> hands to onChange for a typed text:
\* the text when it is a valid floating-point number, else the empty string
valueOfNumberInput(text) ==
    IF IsValidFloatingPointNumber(text) THEN text ELSE <<>>

\* the max attribute of the quantity input
QuantityInputMax == 99

\* the state of the row of item: useState(item.quantity.toString()) and
\* useRef(item.quantity)
mountRow(item) ==
    [productId |-> item.product.id,
     inputValue |-> toString(item.quantity),
     lastCommittedValue |-> item.quantity]

\* commitQuantity without the comparison with lastCommittedValue.current
commitQuantity_always(r, value) ==
    LET newQuantity == parseInt(value)
    IN  IF isNaN(newQuantity) \/ newQuantity[1] < 1
        THEN [result |-> FALSE, row |-> r, calls |-> <<>>]
        ELSE [result |-> TRUE,
              row |-> [r EXCEPT !.lastCommittedValue = newQuantity[1]],
              calls |-> << [productId |-> r.productId,
                            quantity |-> newQuantity[1]] >>]

\* commitQuantity(value): the row afterwards and the onUpdateQuantity calls
commitQuantity(r, value) ==
    LET newQuantity == parseInt(value)
    IN  IF isNaN(newQuantity) \/ newQuantity[1] < 1
        THEN [result |-> FALSE, row |-> r, calls |-> <<>>]
        ELSE IF newQuantity[1] # r.lastCommittedValue
        THEN [result |-> TRUE,
              row |-> [r EXCEPT !.lastCommittedValue = newQuantity[1]],
              calls |-> << [productId |-> r.productId,
                            quantity |-> newQuantity[1]] >>]
        ELSE [result |-> TRUE, row |-> r, calls |-> <<>>]

\* handleInputChange without the upper bound 99 on the parsed value
handleInputChange_noUpper(r, newValue) ==
    LET r1 == [r EXCEPT !.inputValue = newValue]
        parsed == parseInt(newValue)
    IN  IF ~isNaN(parsed) /\ parsed[1] >= 1
        THEN commitQuantity(r1, newValue)
        ELSE [result |-> FALSE, row |-> r1, calls |-> <<>>]

\* handleInputChange without the bounds 1 and 99 on the parsed value
handleInputChange_noRange(r, newValue) ==
    commitQuantity([r EXCEPT !.inputValue = newValue], newValue)

\* handleInputChange(e), newValue being e.target.value
handleInputChange(r, newValue) ==
    LET r1 == [r EXCEPT !.inputValue = newValue]
        parsed == parseInt(newValue)
    IN  IF ~isNaN(parsed) /\ parsed[1] >= 1 /\ parsed[1] <= 99
        THEN commitQuantity(r1, newValue)
        ELSE [result |-> FALSE, row |-> r1, calls |-> <<>>]

\* handleBlur()
handleBlur(r) ==
    LET parsed == parseInt(r.inputValue)
    IN  IF isNaN(parsed) \/ parsed[1] < 1
        THEN [r EXCEPT !.inputValue = toString(r.lastCommittedValue)]
        ELSE r

\* handleKeyDown(e): Enter blurs the input, Escape resets it and blurs it;
\* the blur runs handleBlur of the same render, on the old inputValue
handleKeyDown(r, key) ==
    IF key = "Enter" THEN handleBlur(r)
    ELSE IF key = "Escape"
    THEN [handleBlur(r) EXCEPT !.inputValue = toString(r.lastCommittedValue)]
    ELSE r

\* the effect on [item.quantity]: runs when the quantity of the line changed
syncEffect(r, before, after) ==
    IF QuantityIn(after, r.productId) # QuantityIn(before, r.productId)
    THEN [r EXCEPT !.inputValue = toString(QuantityIn(after, r.productId)),
                   !.lastCommittedValue = QuantityIn(after, r.productId)]
    ELSE r

\* the texts typed or pasted into the quantity input
TypedTexts ==
    { <<>>, <<"a">>, <<"2","x">>, <<"-">>, <<"0">>, <<"-","1">>,
      <<"1">>, <<"2">>, <<"3">>, <<"0","3">>, <<"9","9">>, <<"1","0","0">>,
      <<"0",".","5">>, <<".","5">>, <<"1",".","5">>, <<"0","e","5">>,
      <<"5","e","-","1">>, <<"1","e","2">> }

Keys == {"Enter", "Escape", "a"}

\* the cart holds one line, of product 1, and its row is mounted
InitRow ==
    /\ state = ADD_ITEM(initialState, [product |-> Product(1), quantity |-> 1])
    /\ totals = calculateCartTotals(state)
    /\ prev = state
    /\ last = NoCall
    /\ input = null
    /\ output = null
    /\ event = NoEvent
    /\ row = mountRow(state.items[1])
    /\ heap = null
    /\ ui = null

\* onChange of the quantity input
HandleInputChange ==
    \E text \in TypedTexts :
        LET newValue == valueOfNumberInput(text)
            handled == handleInputChange(row, newValue)
        IN  /\ prev' = state
            /\ event' = [handler |-> "handleInputChange", text |-> text,
                         inputValue |-> row.inputValue,
                         lastCommittedValue |-> row.lastCommittedValue]
            /\ IF handled.calls = <<>>
               THEN /\ last' = NoCall
                    /\ UNCHANGED <<state, totals>>
               ELSE updateQuantity(handled.calls[1].productId,
                                   handled.calls[1].quantity)
            /\ row' = syncEffect(handled.row, state.items, state'.items)
            /\ UNCHANGED <<input, output, heap, ui>>

\* onBlur of the quantity input
HandleBlur ==
    /\ prev' = state
    /\ event' = [handler |-> "handleBlur", inputValue |-> row.inputValue]
    /\ row' = handleBlur(row)
    /\ last' = NoCall
    /\ UNCHANGED <<state, totals, input, output, heap, ui>>

\* onKeyDown of the quantity input
HandleKeyDown ==
    \E key \in Keys :
        /\ prev' = state
        /\ event' = [handler |-> "handleKeyDown", key |-> key,
                     inputValue |-> row.inputValue]
        /\ row' = handleKeyDown(row, key)
        /\ last' = NoCall
        /\ UNCHANGED <<state, totals, input, output, heap, ui>>

\* the product of the line is added once more from the product list; the
\* clicks go on until the line is MaxQuantity above the input's maximum
AddItemOfRow ==
    /\ QuantityIn(state.items, row.productId) + 1 <= QuantityInputMax + MaxQuantity
    /\ prev' = state
    /\ event' = [handler |-> "handleAddToCart", productId |-> row.productId,
                 quantity |-> 1]
    /\ addItem(Product(row.productId), <<1>>)
    /\ row' = syncEffect(row, state.items, state'.items)
    /\ UNCHANGED <<input, output, heap, ui>>

NextRow ==
    \/ HandleInputChange
    \/ HandleBlur
    \/ HandleKeyDown
    \/ AddItemOfRow

SpecRow == InitRow /\ [][NextRow]_vars

----------------------------------------------------------------------------
(* The reducer on a heap: every object literal, spread, map and filter of  *)
(* cartReducer allocates a new object at a fresh address, and a CartState  *)
(* is the address of its object.  Products and promo codes are the values  *)
(* the caller passes in.                                                   *)

\* the address of the module-level initialState object; its items array
\* follows it
InitialStateAddress == 1

\* const initialState = { items: [], appliedPromoCode: null }
InitialObjects ==
    << [kind |-> "CartState", items |-> 2, appliedPromoCode |-> null],
       [kind |-> "Array", elements |-> <<>>] >>

\* the addresses in the items array of the CartState at address s
ElementsOf(objects, s) == objects[objects[s].items].elements

\* the contents of the CartState at address s
Deref(objects, s) ==
    LET elements == ElementsOf(objects, s)
    IN  [items |-> [i \in 1..Len(elements) |->
                       [product |-> objects[elements[i]].product,
                        quantity |-> objects[elements[i]].quantity]],
         appliedPromoCode |-> objects[s].appliedPromoCode]

\* { ...state, items: elements }: a new array and a new CartState
WithItems(objects, s, elements) ==
    LET o1 == Append(objects, [kind |-> "Array", elements |-> elements])
        o2 == Append(o1, [objects[s] EXCEPT !.items = Len(o1)])
    IN  [objects |-> o2, result |-> Len(o2)]

RECURSIVE MapItems(_, _, _, _, _)
\* the first n elements of items.map(item => hit ? { ...item, quantity } :
\* item): a new CartItem for each index in hit, the old address otherwise
MapItems(objects, elements, hit, quantityAt, n) ==
    IF n = 0 THEN [objects |-> objects, elements |-> <<>>]
    ELSE LET before == MapItems(objects, elements, hit, quantityAt, n - 1)
         IN  IF n \in hit
             THEN [objects |->
                       Append(before.objects,
                              [objects[elements[n]] EXCEPT
                                   !.quantity = quantityAt[n]]),
                   elements |->
                       Append(before.elements, Len(before.objects) + 1)]
             ELSE [objects |-> before.objects,
                   elements |-> Append(before.elements, elements[n])]

\* items.filter(item => item.product.id !== productId)
FilterItems(objects, elements, productId) ==
    SelectSeq(elements, LAMBDA a : objects[a].product.id # productId)

\* ADD_ITEM by state.items.push(...) and item.quantity += quantity: the
\* array and the line of the previous state are written in place
ADD_ITEM_onHeap_inPlace(objects, s, payload) ==
    LET elements == ElementsOf(objects, s)
        existingIndex == findIndex(Deref(objects, s).items, payload.product.id)
    IN  IF existingIndex >= 0
        THEN LET o1 == [objects EXCEPT
                           ![elements[existingIndex + 1]].quantity =
                               @ + payload.quantity]
                 o2 == Append(o1, objects[s])
             IN  [objects |-> o2, result |-> Len(o2)]
        ELSE LET o1 == Append(objects,
                              [kind |-> "CartItem",
                               product |-> payload.product,
                               quantity |-> payload.quantity])
                 o2 == [o1 EXCEPT ![objects[s].items].elements =
                                      Append(@, Len(o1))]
                 o3 == Append(o2, objects[s])
             IN  [objects |-> o3, result |-> Len(o3)]

\* case "ADD_ITEM"
ADD_ITEM_onHeap(objects, s, payload) ==
    LET elements == ElementsOf(objects, s)
        existingIndex == findIndex(Deref(objects, s).items, payload.product.id)
    IN  IF existingIndex >= 0
        THEN LET hit == {existingIndex + 1}
                 newItems ==
                     MapItems(objects, elements, hit,
                              [i \in hit |-> objects[elements[i]].quantity
                                                + payload.quantity],
                              Len(elements))
             IN  WithItems(newItems.objects, s, newItems.elements)
        ELSE LET o1 == Append(objects,
                              [kind |-> "CartItem",
                               product |-> payload.product,
                               quantity |-> payload.quantity])
             IN  WithItems(o1, s, Append(elements, Len(o1)))

\* case "REMOVE_ITEM"
REMOVE_ITEM_onHeap(objects, s, payload) ==
    WithItems(objects, s,
              FilterItems(objects, ElementsOf(objects, s), payload.productId))

\* case "UPDATE_QUANTITY"
UPDATE_QUANTITY_onHeap(objects, s, payload) ==
    LET elements == ElementsOf(objects, s)
    IN  IF payload.quantity <= 0
        THEN WithItems(objects, s,
                       FilterItems(objects, elements, payload.productId))
        ELSE LET hit == {i \in 1..Len(elements) :
                            objects[elements[i]].product.id = payload.productId}
                 newItems ==
                     MapItems(objects, elements, hit,
                              [i \in hit |-> payload.quantity], Len(elements))
             IN  WithItems(newItems.objects, s, newItems.elements)

\* APPLY_PROMO by state.appliedPromoCode = promoCode; return state: the
\* state it is given is written, the module-level initialState included
APPLY_PROMO_onHeap_inPlace(objects, s, payload) ==
    [objects |-> [objects EXCEPT ![s].appliedPromoCode = payload.promoCode],
     result |-> s]

\* case "APPLY_PROMO": { ...state, appliedPromoCode: promoCode }
APPLY_PROMO_onHeap(objects, s, payload) ==
    LET o1 == Append(objects,
                     [objects[s] EXCEPT !.appliedPromoCode = payload.promoCode])
    IN  [objects |-> o1, result |-> Len(o1)]

\* case "REMOVE_PROMO": { ...state, appliedPromoCode: null }
REMOVE_PROMO_onHeap(objects, s) ==
    LET o1 == Append(objects, [objects[s] EXCEPT !.appliedPromoCode = null])
    IN  [objects |-> o1, result |-> Len(o1)]

\* case "CLEAR_CART": return initialState
CLEAR_CART_onHeap(objects, s) ==
    [objects |-> objects, result |-> InitialStateAddress]

\* cartReducer(state, action), state being an address
cartReducer_onHeap(objects, s, action) ==
    CASE action.type = "ADD_ITEM" ->
             ADD_ITEM_onHeap(objects, s, action.payload)
      [] action.type = "REMOVE_ITEM" ->
             REMOVE_ITEM_onHeap(objects, s, action.payload)
      [] action.type = "UPDATE_QUANTITY" ->
             UPDATE_QUANTITY_onHeap(objects, s, action.payload)
      [] action.type = "APPLY_PROMO" ->
             APPLY_PROMO_onHeap(objects, s, action.payload)
      [] action.type = "REMOVE_PROMO" -> REMOVE_PROMO_onHeap(objects, s)
      [] action.type = "CLEAR_CART" -> CLEAR_CART_onHeap(objects, s)

RECURSIVE Dispatch(_, _)
\* dispatch of each action in turn: the reducer's result becomes the
\* current state, and is recorded with the contents it was produced with
Dispatch(h, actions) ==
    IF actions = <<>> THEN h
    ELSE LET reduced == cartReducer_onHeap(h.objects, h.current, Head(actions))
         IN  Dispatch([objects |-> reduced.objects,
                       current |-> reduced.result,
                       produced |->
                           h.produced \cup
                               {<<reduced.result,
                                  Deref(reduced.objects, reduced.result)>>}],
                      Tail(actions))

\* useReducer(cartReducer, initialState)
InitHeap ==
    /\ state = initialState
    /\ totals = calculateCartTotals(initialState)
    /\ prev = initialState
    /\ last = NoCall
    /\ input = null
    /\ output = null
    /\ event = NoEvent
    /\ row = null
    /\ heap = [objects |-> InitialObjects,
               current |-> InitialStateAddress,
               produced |-> {<<InitialStateAddress,
                               Deref(InitialObjects, InitialStateAddress)>>}]
    /\ ui = null

\* the heap has room for the objects of one more transition
HeapRoom == Len(heap.objects) < MaxHeapSize

AddItemOnHeap ==
    \E product \in Products, qarg \in PositiveQuantityArgs :
        /\ WithinBound(product, qarg)
        /\ HeapRoom
        /\ prev' = state
        /\ addItem(product, qarg)
        /\ heap' = Dispatch(heap, last'.actions)
        /\ UNCHANGED <<input, output, event, row, ui>>

RemoveItemOnHeap ==
    \E productId \in ProductIds :
        /\ HeapRoom
        /\ prev' = state
        /\ removeItem(productId)
        /\ heap' = Dispatch(heap, last'.actions)
        /\ UNCHANGED <<input, output, event, row, ui>>

UpdateQuantityOnHeap ==
    \E productId \in ProductIds, quantity \in UpdateQuantities :
        /\ HeapRoom
        /\ prev' = state
        /\ updateQuantity(productId, quantity)
        /\ heap' = Dispatch(heap, last'.actions)
        /\ UNCHANGED <<input, output, event, row, ui>>

ApplyPromoCodeOnHeap ==
    \E code \in InputCodes, availableCodes \in Catalogs :
        /\ HeapRoom
        /\ prev' = state
        /\ applyPromoCode(code, availableCodes)
        /\ heap' = Dispatch(heap, last'.actions)
        /\ UNCHANGED <<input, output, event, row, ui>>

RemovePromoCodeOnHeap ==
    /\ HeapRoom
    /\ prev' = state
    /\ removePromoCode
    /\ heap' = Dispatch(heap, last'.actions)
    /\ UNCHANGED <<input, output, event, row, ui>>

ClearCartOnHeap ==
    /\ prev' = state
    /\ clearCart
    /\ heap' = Dispatch(heap, last'.actions)
    /\ UNCHANGED <<input, output, event, row, ui>>

NextHeap ==
    \/ AddItemOnHeap
    \/ RemoveItemOnHeap
    \/ UpdateQuantityOnHeap
    \/ ApplyPromoCodeOnHeap
    \/ RemovePromoCodeOnHeap
    \/ ClearCartOnHeap

SpecHeap == InitHeap /\ [][NextHeap]_vars

----------------------------------------------------------------------------
(* The presentation layer: the product cards, the rows of the cart and the *)
(* promo form, wired to the hook as App and Cart wire them.                *)

\* PromoCodeForm's state: useState(""), useState("idle"), useState("")
mountForm ==
    [inputValue |-> <<>>, validationState |-> "idle", errorMessage |-> ""]

\* PromoCodeForm.handleInputChange(e), value being e.target.value
PromoCodeForm_handleInputChange(f, value) ==
    LET f1 == [f EXCEPT !.inputValue = toUpperCase(value)]
    IN  IF f.validationState = "error"
        THEN [f1 EXCEPT !.validationState = "idle", !.errorMessage = ""]
        ELSE f1

\* handleSubmit without the check of an empty trimmedCode
PromoCodeForm_handleSubmit_noEmptyCheck(f, success) ==
    LET trimmedCode == trim(f.inputValue)
    IN  IF success
        THEN [calls |-> <<trimmedCode>>,
              form |-> [inputValue |-> <<>>, validationState |-> "success",
                        errorMessage |-> ""]]
        ELSE [calls |-> <<trimmedCode>>,
              form |-> [f EXCEPT
                           !.validationState = "error",
                           !.errorMessage =
                               "Invalid promo code. Please try again."]]

\* PromoCodeForm.handleSubmit(e): the codes onApplyPromoCode is called with,
\* and the form afterwards when that call returns success
PromoCodeForm_handleSubmit(f, success) ==
    LET trimmedCode == trim(f.inputValue)
    IN  IF trimmedCode = <<>>
        THEN [calls |-> <<>>,
              form |-> [f EXCEPT !.validationState = "error",
                                 !.errorMessage = "Please enter a promo code"]]
        ELSE IF success
        THEN [calls |-> <<trimmedCode>>,
              form |-> [inputValue |-> <<>>, validationState |-> "success",
                        errorMessage |-> ""]]
        ELSE [calls |-> <<trimmedCode>>,
              form |-> [f EXCEPT
                           !.validationState = "error",
                           !.errorMessage =
                               "Invalid promo code. Please try again."]]

\* PromoCodeForm.handleRemove(), after its onRemovePromoCode()
PromoCodeForm_handleRemove(f) == [f EXCEPT !.validationState = "idle"]

\* render from the items before the change: the view is one change behind
render_stale(u, before, after) ==
    [rows |->
         [id \in {before[i].product.id : i \in 1..Len(before)} |->
             IF id \in DOMAIN u.rows
             THEN u.rows[id]
             ELSE mountRow(before[findIndex(before, id) + 1])],
     form |-> IF before = <<>> THEN null
              ELSE IF u.form = null THEN mountForm ELSE u.form,
     typed |-> IF before = <<>> THEN <<>> ELSE u.typed]

\* Cart rendered again after items changed from before to after: a row per
\* line, keyed by product id (kept rows run their effect, new lines mount a
\* row), and the promo form only while the cart is not empty; typed is the
\* text the user has last given the promo code input
render(u, before, after) ==
    [rows |->
         [id \in {after[i].product.id : i \in 1..Len(after)} |->
             IF id \in DOMAIN u.rows
             THEN syncEffect(u.rows[id], before, after)
             ELSE mountRow(after[findIndex(after, id) + 1])],
     form |-> IF after = <<>> THEN null
              ELSE IF u.form = null THEN mountForm ELSE u.form,
     typed |-> IF after = <<>> THEN <<>> ELSE u.typed]

\* the texts typed into the quantity input of a row
QuantityTexts == { <<"a">>, <<"0">>, <<"2">>, <<"1","0","0">> }

\* the texts typed into the promo code input
PromoTexts == { <<" ","s","a","v","e","1","5">>, <<" ">>, <<"b","a","d">> }

\* the product cards that are clicked: the first two of PRODUCTS
ClickedCards == {1, 2}

InitUI ==
    /\ state = initialState
    /\ totals = calculateCartTotals(initialState)
    /\ prev = initialState
    /\ last = NoCall
    /\ input = null
    /\ output = null
    /\ event = NoEvent
    /\ row = null
    /\ heap = null
    /\ ui = render([rows |-> <<>>, form |-> null, typed |-> <<>>], <<>>, <<>>)

\* ProductList.handleAddToCart with a quantity of 2
ProductList_handleAddToCart_two(productId) == handleAddToCart(productId, 2)

\* ProductList.handleAddToCart(productId): onAddToCart(productId, 1), with
\* App.handleAddToCart as onAddToCart
ProductList_handleAddToCart(productId) == handleAddToCart(productId, 1)

\* the keys pressed on a product card's button
CardKeys == {"Enter", " ", "a"}

\* a click on a product card's Add to Cart: ProductCard.handleClick calls
\* onAddToCart(product.id), which is ProductList.handleAddToCart
ClickAddToCart ==
    \E i \in ClickedCards :
        /\ QuantityIn(state.items, PRODUCTS[i].id) + 1 <= MaxQuantity
        /\ prev' = state
        /\ event' = [handler |-> "ProductCard.handleClick",
                     productId |-> PRODUCTS[i].id]
        /\ ProductList_handleAddToCart(PRODUCTS[i].id)
        /\ ui' = render(ui, state.items, state'.items)
        /\ UNCHANGED <<input, output, row, heap>>

\* a key pressed on a product card's Add to Cart: ProductCard.handleKeyDown
\* calls onAddToCart(product.id) for Enter and space, and prevents the
\* click these keys would cause
KeyDownAddToCart ==
    \E i \in ClickedCards, key \in CardKeys :
        /\ QuantityIn(state.items, PRODUCTS[i].id) + 1 <= MaxQuantity
        /\ prev' = state
        /\ event' = [handler |-> "ProductCard.handleKeyDown",
                     productId |-> PRODUCTS[i].id, key |-> key]
        /\ IF key = "Enter" \/ key = " "
           THEN ProductList_handleAddToCart(PRODUCTS[i].id)
           ELSE /\ last' = NoCall
                /\ UNCHANGED <<state, totals>>
        /\ ui' = render(ui, state.items, state'.items)
        /\ UNCHANGED <<input, output, row, heap>>

\* a change of a row's quantity input
ChangeQuantity ==
    \E id \in DOMAIN ui.rows, text \in QuantityTexts :
        LET handled == handleInputChange(ui.rows[id], valueOfNumberInput(text))
        IN  /\ prev' = state
            /\ event' = [handler |-> "CartItemRow.handleInputChange",
                         productId |-> id, text |-> text,
                         lastCommittedValue |-> ui.rows[id].lastCommittedValue]
            /\ IF handled.calls = <<>>
               THEN /\ last' = NoCall
                    /\ UNCHANGED <<state, totals>>
               ELSE updateQuantity(handled.calls[1].productId,
                                   handled.calls[1].quantity)
            /\ ui' = render([ui EXCEPT !.rows[id] = handled.row],
                            state.items, state'.items)
            /\ UNCHANGED <<input, output, row, heap>>

\* a click on a row's Remove: CartItemRow.handleRemove
ClickRemove ==
    \E id \in DOMAIN ui.rows :
        /\ prev' = state
        /\ event' = [handler |-> "CartItemRow.handleRemove", productId |-> id]
        /\ removeItem(id)
        /\ ui' = render(ui, state.items, state'.items)
        /\ UNCHANGED <<input, output, row, heap>>

\* typing in the promo code input, shown while no promo is applied
ChangePromoInput ==
    \E text \in PromoTexts :
        /\ ui.form # null
        /\ state.appliedPromoCode = null
        /\ prev' = state
        /\ event' = [handler |-> "PromoCodeForm.handleInputChange",
                     text |-> text, form |-> ui.form]
        /\ last' = NoCall
        /\ ui' = [ui EXCEPT !.form = PromoCodeForm_handleInputChange(@, text),
                            !.typed = text]
        /\ UNCHANGED <<state, totals, input, output, row, heap>>

\* Apply: PromoCodeForm.handleSubmit with App.handleApplyPromoCode, which
\* is applyPromoCode(code, PROMO_CODES)
SubmitPromo ==
    /\ ui.form # null
    /\ state.appliedPromoCode = null
    /\ prev' = state
    /\ event' = [handler |-> "PromoCodeForm.handleSubmit",
                 form |-> ui.form, typed |-> ui.typed]
    /\ IF PromoCodeForm_handleSubmit(ui.form, FALSE).calls = <<>>
       THEN /\ last' = NoCall
            /\ UNCHANGED <<state, totals>>
       ELSE applyPromoCode(PromoCodeForm_handleSubmit(ui.form, FALSE).calls[1],
                           PROMO_CODES)
    /\ ui' = render([ui EXCEPT
                         !.form =
                             PromoCodeForm_handleSubmit(@, last'.result = TRUE).form,
                         !.typed = IF last' # NoCall /\ last'.result
                                   THEN <<>> ELSE @],
                    state.items, state'.items)
    /\ UNCHANGED <<input, output, row, heap>>

\* a click on the applied promo's Remove: PromoCodeForm.handleRemove
ClickRemovePromo ==
    /\ ui.form # null
    /\ state.appliedPromoCode # null
    /\ prev' = state
    /\ event' = [handler |-> "PromoCodeForm.handleRemove"]
    /\ removePromoCode
    /\ ui' = render([ui EXCEPT !.form = PromoCodeForm_handleRemove(@)],
                    state.items, state'.items)
    /\ UNCHANGED <<input, output, row, heap>>

NextUI ==
    \/ ClickAddToCart
    \/ KeyDownAddToCart
    \/ ChangeQuantity
    \/ ClickRemove
    \/ ChangePromoInput
    \/ SubmitPromo
    \/ ClickRemovePromo

SpecUI == InitUI /\ [][NextUI]_vars

----------------------------------------------------------------------------
(* The totals calculator on its own: calculateCartTotals applied to every  *)
(* CartState of the declared domain (prices >= 0, quantities >= 1, one     *)
(* line per product id, a percentage in 0..100 or a fixed value >= 0).     *)

\* unit prices: 0, 5.00, 5.99 and 10.99
Prices == {0, 500 * Cent, 599 * Cent, 1099 * Cent}

\* the discounts: percentages 0, 15, 33, 100; fixed 0, 0.01, 10.00, 50.00
Discounts ==
    {[type |-> "percentage", value |-> v] : v \in {0, 15, 33, 100}}
    \cup {[type |-> "fixed", value |-> v * Cent] : v \in {0, 1, 1000, 5000}}

PromoCodeOf(discount) ==
    [code |-> <<"P">>, discount |-> discount, displayText |-> "promo"]

\* the line items of the domain
LineItems ==
    {[product |-> [id |-> id, name |-> NameOf(id), price |-> price],
      quantity |-> quantity] :
        id \in ProductIds, price \in Prices, quantity \in 1..MaxQuantity}

\* the item lists of the domain: one line per product id
ItemLists ==
    {items \in UNION {[1..n -> LineItems] : n \in 0..MaxProductId} :
        \A i, j \in 1..Len(items) :
            i # j => items[i].product.id # items[j].product.id}

CartStates ==
    {[items |-> items, appliedPromoCode |-> promoCode] :
        items \in ItemLists,
        promoCode \in {null} \cup {PromoCodeOf(d) : d \in Discounts}}

InitTotals ==
    /\ state \in CartStates
    /\ totals = null
    /\ prev = state
    /\ last = NoCall
    /\ input = null
    /\ output = null
    /\ event = NoEvent
    /\ row = null
    /\ heap = null
    /\ ui = null

\* calculateCartTotals(state)
CalculateCartTotals ==
    /\ last = NoCall
    /\ totals' = calculateCartTotals(state)
    /\ last' = [op |-> "calculateCartTotals", args |-> <<>>,
                actions |-> <<>>, result |-> null]
    /\ UNCHANGED <<state, prev, input, output, event, row, heap, ui>>

NextTotals == CalculateCartTotals

SpecTotals == InitTotals /\ [][NextTotals]_vars

----------------------------------------------------------------------------
(* The discount calculator on its own: calculateDiscountAmount applied to  *)
(* whole-cent subtotals and every discount of the domain, or none.         *)

\* subtotals: 0, 0.01, 0.10, 5.99, 21.98, 27.97, 30.00 and 100.00
Subtotals == {c * Cent : c \in {0, 1, 10, 599, 2198, 2797, 3000, 10000}}

DiscountInputs ==
    [subtotal : Subtotals, discount : {null} \cup Discounts]

InitDiscount ==
    /\ state = initialState
    /\ totals = calculateCartTotals(initialState)
    /\ prev = initialState
    /\ last = NoCall
    /\ input \in DiscountInputs
    /\ output = null
    /\ event = NoEvent
    /\ row = null
    /\ heap = null
    /\ ui = null

\* calculateDiscountAmount(subtotal, discount)
CalculateDiscountAmount ==
    /\ last = NoCall
    /\ output' = calculateDiscountAmount(input.subtotal, input.discount)
    /\ last' = [op |-> "calculateDiscountAmount", args |-> <<>>,
                actions |-> <<>>, result |-> null]
    /\ UNCHANGED <<state, totals, prev, input, event, row, heap, ui>>

NextDiscount == CalculateDiscountAmount

SpecDiscount == InitDiscount /\ [][NextDiscount]_vars

----------------------------------------------------------------------------
(* The promo validator on its own: validatePromoCode applied to every      *)
(* string of up to MaxCodeLen characters over a small alphabet, and to the *)
(* codes the hook is called with, against three catalogs.                  *)

\* a lower-case letter, its upper-case form, a digit and a blank
CodeChars == {"a", "A", "1", " "}

CodeStrings ==
    UNION {[1..n -> CodeChars] : n \in 0..MaxCodeLen} \cup InputCodes

\* a catalog of short codes: the second A1 is shadowed by the first, and the
\* lower-case a1 can never equal an upper-cased input
ShortCodes ==
    << [code |-> <<"A","1">>,
        discount |-> [type |-> "percentage", value |-> 15],
        displayText |-> "15% off"],
       [code |-> <<"A">>,
        discount |-> [type |-> "fixed", value |-> 1000 * Cent],
        displayText |-> "$10 off"],
       [code |-> <<"a","1">>,
        discount |-> [type |-> "percentage", value |-> 33],
        displayText |-> "33% off"],
       [code |-> <<"A","1">>,
        discount |-> [type |-> "percentage", value |-> 100],
        displayText |-> "100% off"] >>

ValidateCatalogs == {<<>>, PROMO_CODES, ShortCodes}

InitValidate ==
    /\ state = initialState
    /\ totals = calculateCartTotals(initialState)
    /\ prev = initialState
    /\ last = NoCall
    /\ input \in [code : CodeStrings, availableCodes : ValidateCatalogs]
    /\ output = null
    /\ event = NoEvent
    /\ row = null
    /\ heap = null
    /\ ui = null

\* validatePromoCode(code, availableCodes)
ValidatePromoCode ==
    /\ last = NoCall
    /\ output' = validatePromoCode(input.code, input.availableCodes)
    /\ last' = [op |-> "validatePromoCode", args |-> <<>>,
                actions |-> <<>>, result |-> null]
    /\ UNCHANGED <<state, totals, prev, input, event, row, heap, ui>>

NextValidate == ValidatePromoCode

SpecValidate == InitValidate /\ [][NextValidate]_vars

----------------------------------------------------------------------------
(* The rounding of utils/currency in the numbers of the code: a number is  *)
(* an IEEE 754 double, here a positive one (or zero): a mantissa of        *)
(* Precision bits, most significant first and starting with 1, and the     *)
(* exponent e of its last bit, the value being mantissa * 2^e.  Every      *)
(* operation gives the double nearest to the exact result, ties to even.   *)

\* the bits of a double's mantissa (value: number)
Precision == 53

\* the numeral of n in w binary digits, n < 2^w
toBitsFixed(n, w) == [i \in 1..w |-> (n \div 2^(w - i)) % 2]

\* a binary numeral without its leading zeros
Strip(b) ==
    IF \A i \in 1..Len(b) : b[i] = 0 THEN <<>>
    ELSE SubSeq(b, CHOOSE i \in 1..Len(b) :
                       b[i] = 1 /\ \A j \in 1..(i - 1) : b[j] = 0,
                Len(b))

\* the binary numeral of the natural number n, without leading zeros
toBits(n) == Strip(toBitsFixed(n, 31))

RECURSIVE fromBits(_)
\* the natural number of a binary numeral of up to 31 digits
fromBits(b) ==
    IF b = <<>> THEN 0
    ELSE 2 * fromBits(SubSeq(b, 1, Len(b) - 1)) + b[Len(b)]

Zeros(k) == [i \in 1..k |-> 0]

\* the binary numeral of b + 1
Increment(b) ==
    IF \A i \in 1..Len(b) : b[i] = 1 THEN <<1>> \o Zeros(Len(b))
    ELSE LET p == CHOOSE i \in 1..Len(b) :
                      b[i] = 0 /\ \A j \in (i + 1)..Len(b) : b[j] = 1
         IN  [i \in 1..Len(b) |->
                 IF i < p THEN b[i] ELSE IF i = p THEN 1 ELSE 0]

\* the digits of the arithmetic on numerals: 16 binary digits at a time
Radix == 2^16

RECURSIVE TimesDigits(_, _, _)
\* the binary numeral of b * c + carry * 2^Len(b), for a numeral b of a
\* multiple of 16 digits and an integer c below 2^14
TimesDigits(b, c, carry) ==
    IF b = <<>> THEN toBits(carry)
    ELSE LET v == fromBits(SubSeq(b, Len(b) - 15, Len(b))) * c + carry
         IN  TimesDigits(SubSeq(b, 1, Len(b) - 16), c, v \div Radix)
                 \o toBitsFixed(v % Radix, 16)

\* the binary numeral of b * c
TimesSmall(b, c) ==
    Strip(TimesDigits(Zeros((16 - (Len(b) % 16)) % 16) \o b, c, 0))

\* the double 0
Zero == [m |-> <<>>, e |-> 0]

\* the double nearest to bits * 2^e, or to a little more when sticky
\* (round to nearest, ties to even)
Nearest(bits, e, sticky) ==
    LET b == Strip(bits)
        n == Len(b)
    IN  IF b = <<>> THEN Zero
        ELSE IF n <= Precision
        THEN [m |-> b \o Zeros(Precision - n), e |-> e - (Precision - n)]
        ELSE LET keep == SubSeq(b, 1, Precision)
                 guard == b[Precision + 1]
                 rest == sticky \/ \E i \in (Precision + 2)..n : b[i] = 1
                 e2 == e + (n - Precision)
                 up == guard = 1 /\ (rest \/ keep[Precision] = 1)
                 inc == Increment(keep)
             IN  IF ~up THEN [m |-> keep, e |-> e2]
                 ELSE IF Len(inc) > Precision
                 THEN [m |-> SubSeq(inc, 1, Precision), e |-> e2 + 1]
                 ELSE [m |-> inc, e |-> e2]

RECURSIVE Quotient(_, _, _, _)
\* at least Precision + 2 significant digits of bits * 2^e + (r / d) * 2^e
\* by long division, 16 digits at a time (d below 2^15), and whether a
\* remainder is left
Quotient(bits, e, r, d) ==
    IF r = 0 \/ Len(bits) >= Precision + 2
    THEN [bits |-> bits, e |-> e, sticky |-> r # 0]
    ELSE Quotient(Strip(bits \o toBitsFixed((r * Radix) \div d, 16)),
                  e - 16, (r * Radix) % d, d)

\* the double n / d of two integer doubles, which is also the double a
\* decimal literal with the digits n and the scale d denotes
Divide(n, d) ==
    LET q == Quotient(toBits(n \div d), 0, n % d, d)
    IN  Nearest(q.bits, q.e, q.sticky)

\* the double x * c, c a double that is a small integer
Times(x, c) == Nearest(TimesSmall(x.m, c), x.e, FALSE)

RECURSIVE QuotientDigits(_, _, _)
\* the numeral of (r * 2^Len(b) + b) divided by d, 16 digits at a time, for
\* a numeral b of a multiple of 16 digits and r < d < 2^15, and whether a
\* remainder is left
QuotientDigits(b, r, d) ==
    IF b = <<>> THEN [bits |-> <<>>, sticky |-> r # 0]
    ELSE LET v == r * Radix + fromBits(SubSeq(b, 1, 16))
             q == QuotientDigits(SubSeq(b, 17, Len(b)), v % d, d)
         IN  [bits |-> toBitsFixed(v \div d, 16) \o q.bits,
              sticky |-> q.sticky]

\* the double x / d, d a double that is a small integer
Over(x, d) ==
    IF x = Zero THEN Zero
    ELSE LET b == Zeros(11) \o x.m \o Zeros(16)
             q == QuotientDigits(b, 0, d)
         IN  Nearest(q.bits, x.e - 16, q.sticky)

\* x < y
Less(x, y) ==
    IF y = Zero THEN FALSE
    ELSE IF x = Zero THEN TRUE
    ELSE \/ x.e < y.e
         \/ /\ x.e = y.e
            /\ \E i \in 1..Precision :
                   /\ x.m[i] < y.m[i]
                   /\ \A j \in 1..(i - 1) : x.m[j] = y.m[j]

\* Math.min(x, y)
Math_min(x, y) == IF Less(y, x) THEN y ELSE x

\* Math.round(x): the integer floor(x + 1/2)
Math_round(x) ==
    IF x = Zero THEN 0
    ELSE IF x.e >= 0 THEN fromBits(x.m \o Zeros(x.e))
    ELSE IF 0 - x.e > Precision THEN 0
    ELSE fromBits(SubSeq(x.m, 1, Precision + x.e)) + x.m[Precision + x.e + 1]

\* roundToTwoDecimals(value) = Math.round(value * 100) / 100 in doubles
roundToTwoDecimals_double(value) == Divide(Math_round(Times(value, 100)), 100)

\* calculateItemSubtotal(item) in doubles
calculateItemSubtotal_double(item) ==
    roundToTwoDecimals_double(Times(item.product.price, item.quantity))

\* calculateDiscountAmount(subtotal, discount) in doubles, discount.value a
\* small integer
calculateDiscountAmount_double(subtotal, discount) ==
    IF discount = null THEN Zero
    ELSE LET discountAmount ==
                 IF discount.type = "percentage"
                 THEN Over(Times(subtotal, discount.value), 100)
                 ELSE Divide(discount.value, 1)
         IN  roundToTwoDecimals_double(Math_min(discountAmount, subtotal))

\* the decimal literals roundToTwoDecimals is applied to, in thousandths:
\* 1.000 to 1.040, and the 10.994, 10.995 and 10.999 of cartLogic.test
Thousandths == (1000..1040) \cup {10994, 10995, 10999}

\* prices in cents: the 10.99 of cartLogic.test and the prices of PRODUCTS
PricesInCents == {1099} \cup {PRODUCTS[i].price \div Cent : i \in 1..Len(PRODUCTS)}

\* subtotals in cents, those of carts of PRODUCTS among them
\* (259.90 = 4 * 34.99 + 6 * 19.99, 264.90 = 4 * 24.99 + 3 * 34.99 + 3 * 19.99)
SubtotalsInCents == {2499, 5998, 10000, 25990, 26490}

\* discounts, the value a whole number: those of PROMO_CODES and a fixed 5
DiscountsInDollars ==
    { [type |-> "percentage", value |-> 10],
      [type |-> "percentage", value |-> 15],
      [type |-> "fixed", value |-> 5] }

RoundInputs ==
    {[op |-> "roundToTwoDecimals", thousandths |-> n] : n \in Thousandths}
    \cup {[op |-> "calculateItemSubtotal", price |-> p, quantity |-> q] :
              p \in PricesInCents, q \in 1..MaxQuantity}
    \cup {[op |-> "calculateDiscountAmount", subtotal |-> c, discount |-> d] :
              c \in SubtotalsInCents, d \in DiscountsInDollars}

InitRound ==
    /\ state = initialState
    /\ totals = calculateCartTotals(initialState)
    /\ prev = initialState
    /\ last = NoCall
    /\ input \in RoundInputs
    /\ output = null
    /\ event = NoEvent
    /\ row = null
    /\ heap = null
    /\ ui = null

\* roundToTwoDecimals(value), value a decimal literal
RoundToTwoDecimals ==
    /\ output = null
    /\ input.op = "roundToTwoDecimals"
    /\ output' = roundToTwoDecimals_double(Divide(input.thousandths, 1000))
    /\ UNCHANGED <<state, totals, prev, last, input, event, row, heap, ui>>

\* calculateItemSubtotal(item), the price a decimal literal of two places
ItemSubtotalInDoubles ==
    /\ output = null
    /\ input.op = "calculateItemSubtotal"
    /\ output' = calculateItemSubtotal_double(
                     [product |-> [price |-> Divide(input.price, 100)],
                      quantity |-> input.quantity])
    /\ UNCHANGED <<state, totals, prev, last, input, event, row, heap, ui>>

\* calculateDiscountAmount(subtotal, discount), the subtotal one that
\* roundToTwoDecimals has returned
DiscountAmountInDoubles ==
    /\ output = null
    /\ input.op = "calculateDiscountAmount"
    /\ output' = calculateDiscountAmount_double(Divide(input.subtotal, 100),
                                                input.discount)
    /\ UNCHANGED <<state, totals, prev, last, input, event, row, heap, ui>>

NextRound ==
    \/ RoundToTwoDecimals
    \/ ItemSubtotalInDoubles
    \/ DiscountAmountInDoubles

SpecRound == InitRound /\ [][NextRound]_vars

----------------------------------------------------------------------------
(* Properties *)

\* the index set of the lines of productId in items
LinesOf(items, productId) ==
    {i \in 1..Len(items) : items[i].product.id = productId}

\* the quantity an addItem call adds: the one given, 1 when it is omitted
AddedQuantity(args) ==
    IF args.quantity = <<>> THEN 1 ELSE args.quantity[1]

\* C1: starting from the empty cart, after any sequence of addItem (with a
\* positive integer quantity), removeItem and updateQuantity (with any integer
\* quantity) calls, every line item of the CartState has an integer
\* quantity >= 1.
C1_QuantitiesPositive ==
    \A i \in 1..Len(state.items) :
        state.items[i].quantity \in Nat /\ state.items[i].quantity >= 1

\* updateQuantity with a quantity <= 0 has acted on a line of the cart and
\* lines remain
C1_Witness ==
    /\ last.op = "updateQuantity"
    /\ last.args.quantity <= 0
    /\ Has(prev.items, last.args.productId)
    /\ state.items # <<>>

\* C2: every cart transition whose result would give a line item a quantity
\* of 0 or below removes that line item instead of storing the non-positive
\* quantity: updateQuantity with quantity <= 0, and addItem with a quantity
\* that is <= 0 or that brings an existing line's quantity to <= 0.
C2_NonPositiveRemovesLine ==
    /\ (/\ last.op = "updateQuantity"
        /\ last.args.quantity <= 0)
           => ~Has(state.items, last.args.productId)
    /\ (/\ last.op = "addItem"
        /\ QuantityIn(prev.items, last.args.product.id)
               + AddedQuantity(last.args) <= 0)
           => ~Has(state.items, last.args.product.id)

\* C3: in every CartState reachable from the empty cart by the six operations
\* no two line items have the same product identifier.
C3_OneLinePerProduct ==
    \A i, j \in 1..Len(state.items) :
        i # j => state.items[i].product.id # state.items[j].product.id

\* addItem has acted on a product that already had a line, in a cart of
\* several lines
C3_Witness ==
    /\ last.op = "addItem"
    /\ Has(prev.items, last.args.product.id)
    /\ Len(state.items) >= 2

\* C4: addItem(p, q1) followed by addItem(p, q2), q1, q2 positive, on a cart
\* without p yields exactly one line for p, of quantity q1 + q2; addItem on a
\* product already present increases that line's quantity by the given
\* quantity, and addItem without a quantity adds 1.
C4_AddItemAccumulates ==
    /\ \A product \in Products, q1, q2 \in 1..MaxQuantity :
           ~Has(state.items, product.id) =>
               LET add(q) == [type |-> "ADD_ITEM",
                              payload |-> [product |-> product, quantity |-> q]]
                   after == cartReducer(cartReducer(state, add(q1)), add(q2))
               IN  /\ Cardinality(LinesOf(after.items, product.id)) = 1
                   /\ QuantityIn(after.items, product.id) = q1 + q2
    /\ last.op = "addItem" =>
           LET id == last.args.product.id
           IN  /\ Cardinality(LinesOf(state.items, id)) = 1
               /\ QuantityIn(state.items, id)
                      = QuantityIn(prev.items, id) + AddedQuantity(last.args)

\* addItem with a quantity of 2 or more has acted on a product that already
\* had a line
C4_Witness ==
    /\ last.op = "addItem"
    /\ last.args.quantity # <<>>
    /\ AddedQuantity(last.args) >= 2
    /\ Has(prev.items, last.args.product.id)
    /\ QuantityIn(state.items, last.args.product.id) = MaxQuantity

\* C5: for every CartState, product id and quantity q <= 0, updateQuantity(id,
\* q) yields the same CartState as removeItem(id), whether or not the product
\* is present.
C5_UpdateNonPositiveIsRemove ==
    /\ \A productId \in ProductIds, quantity \in (0 - MaxQuantity)..0 :
           cartReducer(state,
                       [type |-> "UPDATE_QUANTITY",
                        payload |-> [productId |-> productId,
                                     quantity |-> quantity]])
             = cartReducer(state,
                           [type |-> "REMOVE_ITEM",
                            payload |-> [productId |-> productId]])
    /\ (last.op = "updateQuantity" /\ last.args.quantity <= 0) =>
           state = cartReducer(prev,
                               [type |-> "REMOVE_ITEM",
                                payload |-> [productId |-> last.args.productId]])

\* updateQuantity(id, 0) has removed the line of id from a cart of two lines
\* with a promo applied
C5_Witness ==
    /\ last.op = "updateQuantity"
    /\ last.args.quantity = 0
    /\ Has(prev.items, last.args.productId)
    /\ Len(prev.items) = 2
    /\ Len(state.items) = 1
    /\ state.appliedPromoCode # null

\* C6: for q >= 1, updateQuantity(id, q) sets the quantity of the line of id
\* to exactly q, whatever it was, and leaves every other line unchanged; when
\* no line has that id the items equal the previous items.
C6_UpdateSetsQuantity ==
    (last.op = "updateQuantity" /\ last.args.quantity >= 1) =>
        /\ Len(state.items) = Len(prev.items)
        /\ \A i \in 1..Len(prev.items) :
               IF prev.items[i].product.id = last.args.productId
               THEN /\ state.items[i].product = prev.items[i].product
                    /\ state.items[i].quantity = last.args.quantity
               ELSE state.items[i] = prev.items[i]
        /\ ~Has(prev.items, last.args.productId) => state.items = prev.items

\* updateQuantity has changed the quantity of one line of a cart of two
C6_Witness ==
    /\ last.op = "updateQuantity"
    /\ last.args.quantity >= 1
    /\ Has(prev.items, last.args.productId)
    /\ QuantityIn(prev.items, last.args.productId) > last.args.quantity
    /\ Len(prev.items) = 2

\* C7: removeItem(id) yields a state with no line for id and with every other
\* line (product and quantity) unchanged; when id is not in the cart the items
\* and the applied promo equal those of the previous state.
C7_RemoveItemFrame ==
    last.op = "removeItem" =>
        LET id == last.args.productId
            others == {i \in 1..Len(prev.items) : prev.items[i].product.id # id}
        IN  /\ ~Has(state.items, id)
            /\ Len(state.items) = Cardinality(others)
            /\ {state.items[i] : i \in 1..Len(state.items)}
                   = {prev.items[i] : i \in others}
            /\ ~Has(prev.items, id) =>
                   /\ state.items = prev.items
                   /\ state.appliedPromoCode = prev.appliedPromoCode

\* removeItem has acted for an id that is not in a cart that has a line and a
\* promo
C7_Witness ==
    /\ last.op = "removeItem"
    /\ ~Has(prev.items, last.args.productId)
    /\ prev.items # <<>>
    /\ prev.appliedPromoCode # null

\* C8: the cart holds at most one applied promo code in every reachable
\* state: applyPromoCode(c) makes c the applied promo whatever promo was
\* applied before, and removePromoCode leaves no promo applied.
C8_OnePromo ==
    /\ \/ state.appliedPromoCode = null
       \/ \E c \in Catalogs : \E i \in 1..Len(c) : state.appliedPromoCode = c[i]
    /\ \A i \in 1..Len(last.actions) :
           last.actions[i].type = "APPLY_PROMO" =>
               state.appliedPromoCode = last.actions[i].payload.promoCode
    /\ (last.op = "applyPromoCode" /\ last.result = TRUE) =>
           /\ Len(last.actions) = 1
           /\ state.appliedPromoCode # null
           /\ state.appliedPromoCode.code = toUpperCase(trim(last.args.code))
    /\ last.op = "removePromoCode" => state.appliedPromoCode = null

\* applyPromoCode has replaced another promo that was applied
C8_Witness ==
    /\ last.op = "applyPromoCode"
    /\ last.result = TRUE
    /\ prev.appliedPromoCode # null
    /\ prev.appliedPromoCode # state.appliedPromoCode

\* C9: from every reachable CartState, clearCart yields the canonical empty
\* state: no line items and no applied promo code, equal to the initial state.
C9_ClearCartEmpty ==
    /\ cartReducer(state, [type |-> "CLEAR_CART"])
           = [items |-> <<>>, appliedPromoCode |-> null]
    /\ last.op = "clearCart" =>
           /\ state.items = <<>>
           /\ state.appliedPromoCode = null
           /\ state = initialState
           /\ totals = [subtotal |-> 0, discountAmount |-> 0, total |-> 0,
                        itemCount |-> 0]

\* clearCart has acted on a cart with lines and a promo
C9_Witness ==
    /\ last.op = "clearCart"
    /\ prev.items # <<>>
    /\ prev.appliedPromoCode # null

\* C10: for every CartState (prices >= 0, quantities >= 1, a percentage value
\* in 0..100 or a fixed value >= 0, or no promo), calculateCartTotals returns
\* discountAmount <= subtotal and total >= 0.
C10_DiscountWithinSubtotal ==
    last.op = "calculateCartTotals" =>
        /\ totals.discountAmount <= totals.subtotal
        /\ totals.total >= 0

\* the totals of a cart whose fixed discount is above its subtotal
C10_Witness ==
    /\ last.op = "calculateCartTotals"
    /\ state.appliedPromoCode # null
    /\ state.appliedPromoCode.discount.type = "fixed"
    /\ totals.subtotal > 0
    /\ state.appliedPromoCode.discount.value > totals.subtotal
    /\ totals.discountAmount = totals.subtotal
    /\ totals.total = 0

\* the absolute value
Abs(n) == IF n < 0 THEN 0 - n ELSE n

\* C11: calculateDiscountAmount returns 0 when there is no discount, and
\* otherwise a whole number of cents within half a cent of the smaller of the
\* subtotal and the computed discount (subtotal * value / 100 for a
\* percentage, value for a fixed amount); 100.00 at 15% gives 15.00, 30.00
\* with a fixed 50.00 gives 30.00, and 21.98 at 15% gives 3.30.
C11_DiscountAmount ==
    last.op = "calculateDiscountAmount" =>
        LET subtotal == input.subtotal
            discount == input.discount
            \* the computed discount and the subtotal, both times 100
            computed100 ==
                IF discount.type = "percentage"
                THEN subtotal * discount.value
                ELSE 100 * discount.value
            capped100 == Min(computed100, 100 * subtotal)
            percent15 == [type |-> "percentage", value |-> 15]
            fixed50 == [type |-> "fixed", value |-> 5000 * Cent]
        IN  /\ discount = null => output = 0
            /\ discount # null =>
                   /\ output % Cent = 0
                   /\ 2 * Abs(100 * output - capped100) <= 100 * Cent
            /\ (subtotal = 10000 * Cent /\ discount = percent15)
                   => output = 1500 * Cent
            /\ (subtotal = 3000 * Cent /\ discount = fixed50)
                   => output = 3000 * Cent
            /\ (subtotal = 2198 * Cent /\ discount = percent15)
                   => output = 330 * Cent

\* 21.98 at 15%: the computed 3.297 is rounded to 3.30
C11_Witness ==
    /\ last.op = "calculateDiscountAmount"
    /\ input = [subtotal |-> 2198 * Cent,
                discount |-> [type |-> "percentage", value |-> 15]]
    /\ output = 330 * Cent

\* C12: the subtotal calculateCartTotals returns is the sum over the lines
\* of unit price times quantity, a whole number of cents, and itemCount is
\* the sum of the quantities; 2 at 10.99 and 1 at 5.99 give 27.97 and 3.
C12_SubtotalAndItemCount ==
    last.op = "calculateCartTotals" =>
        LET items == state.items
            lineSum[n \in 0..Len(items)] ==
                IF n = 0 THEN 0
                ELSE lineSum[n - 1]
                     + items[n].product.price * items[n].quantity
            quantitySum[n \in 0..Len(items)] ==
                IF n = 0 THEN 0 ELSE quantitySum[n - 1] + items[n].quantity
        IN  /\ totals.subtotal = lineSum[Len(items)]
            /\ totals.subtotal % Cent = 0
            /\ totals.itemCount = quantitySum[Len(items)]

\* two at 10.99 and one at 5.99
C12_Witness ==
    /\ last.op = "calculateCartTotals"
    /\ Len(state.items) = 2
    /\ state.items[1].product.price = 1099 * Cent
    /\ state.items[1].quantity = 2
    /\ state.items[2].product.price = 599 * Cent
    /\ state.items[2].quantity = 1
    /\ totals.subtotal = 2797 * Cent
    /\ totals.itemCount = 3

\* C13: the total calculateCartTotals returns is max(0, subtotal -
\* discountAmount), and in whole cents total + discountAmount = subtotal; a
\* subtotal of 5.00 with a fixed 10.00 gives discount 5.00 and total 0, and
\* 21.98 with a fixed 10.00 gives total 11.98.
C13_TotalIsSubtotalLessDiscount ==
    last.op = "calculateCartTotals" =>
        LET fixed10 == PromoCodeOf([type |-> "fixed", value |-> 1000 * Cent])
            difference == totals.subtotal - totals.discountAmount
        IN  /\ totals.total = (IF difference > 0 THEN difference ELSE 0)
            /\ totals.total % Cent = 0
            /\ totals.discountAmount % Cent = 0
            /\ totals.total + totals.discountAmount = totals.subtotal
            /\ (state.appliedPromoCode = fixed10
                    /\ totals.subtotal = 500 * Cent)
                   => (totals.discountAmount = 500 * Cent /\ totals.total = 0)
            /\ (state.appliedPromoCode = fixed10
                    /\ totals.subtotal = 2198 * Cent)
                   => totals.total = 1198 * Cent

\* 21.98 with a fixed 10.00 off: the total is 11.98
C13_Witness ==
    /\ last.op = "calculateCartTotals"
    /\ state.appliedPromoCode # null
    /\ state.appliedPromoCode.discount = [type |-> "fixed", value |-> 1000 * Cent]
    /\ totals.subtotal = 2198 * Cent
    /\ totals.discountAmount = 1000 * Cent
    /\ totals.total = 1198 * Cent

\* s without its leading and trailing whitespace characters
Core(s) ==
    LET inked == {i \in 1..Len(s) : s[i] \notin WhiteSpace}
    IN  IF inked = {} THEN <<>>
        ELSE SubSeq(s, CHOOSE i \in inked : \A j \in inked : i <= j,
                       CHOOSE i \in inked : \A j \in inked : i >= j)

\* x and y are the same character or the two cases of one letter
SameLetter(x, y) ==
    \/ x = y
    \/ \E i \in 1..Len(Lower) : {x, y} = {Lower[i], Upper[i]}

\* c and d differ only in letter case and in surrounding whitespace
SameUpToCaseAndBlanks(c, d) ==
    /\ Len(Core(c)) = Len(Core(d))
    /\ \A i \in 1..Len(Core(c)) : SameLetter(Core(c)[i], Core(d)[i])

\* code is s with every lower-case letter replaced by its upper-case form
IsUpperCased(code, s) ==
    /\ Len(code) = Len(s)
    /\ \A i \in 1..Len(s) :
           /\ SameLetter(code[i], s[i])
           /\ \A k \in 1..Len(Lower) : code[i] # Lower[k]

\* the entries of a catalog
Entries(availableCodes) ==
    {availableCodes[i] : i \in 1..Len(availableCodes)}

\* C14: validatePromoCode gives the same result for every string that
\* differs from its input only in letter case and surrounding whitespace, and
\* that result is the (first) entry of the catalog whose code equals the
\* trimmed, upper-cased input.
C14_CaseAndWhitespaceInsensitive ==
    last.op = "validatePromoCode" =>
        LET catalog == input.availableCodes
            matching == {i \in 1..Len(catalog) :
                            IsUpperCased(catalog[i].code, Core(input.code))}
        IN  /\ \A c \in CodeStrings :
                   SameUpToCaseAndBlanks(input.code, c)
                       => validatePromoCode(c, catalog) = output
            /\ matching # {} =>
                   output = catalog[CHOOSE i \in matching :
                                       \A j \in matching : i <= j]

\* " save15 " against PROMO_CODES finds the SAVE15 entry
C14_Witness ==
    /\ last.op = "validatePromoCode"
    /\ input.code = <<" ","s","a","v","e","1","5"," ">>
    /\ input.availableCodes = PROMO_CODES
    /\ output = PROMO_CODES[1]

\* C15: validatePromoCode returns null for every input whose trimmed,
\* upper-cased form equals no code of the catalog, the empty string and
\* whitespace-only strings among them, and a non-null result is always an
\* entry of the catalog it was given.
C15_NullWhenNotFound ==
    last.op = "validatePromoCode" =>
        LET catalog == input.availableCodes
            matches(entry) == IsUpperCased(entry.code, Core(input.code))
        IN  /\ (\A entry \in Entries(catalog) : ~matches(entry))
                   => output = null
            /\ output # null => output \in Entries(catalog)
            /\ (Core(input.code) = <<>> /\ catalog \in {PROMO_CODES, <<>>})
                   => output = null

\* a whitespace-only input against PROMO_CODES is not found
C15_Witness ==
    /\ last.op = "validatePromoCode"
    /\ input.code = <<" ", " ">>
    /\ input.availableCodes = PROMO_CODES
    /\ output = null

\* C16: applyPromoCode(code, catalog) returns true and makes the matching
\* catalog entry the applied promo (items untouched) when the code validates;
\* otherwise it returns false, dispatches nothing and leaves the CartState,
\* items and any promo applied before, as it was.
C16_ApplyPromoCodeResult ==
    last.op = "applyPromoCode" =>
        LET catalog == last.args.availableCodes
            matching == {i \in 1..Len(catalog) :
                            IsUpperCased(catalog[i].code,
                                         Core(last.args.code))}
        IN  IF matching # {}
            THEN /\ last.result = TRUE
                 /\ state.appliedPromoCode =
                        catalog[CHOOSE i \in matching :
                                    \A j \in matching : i <= j]
                 /\ state.items = prev.items
            ELSE /\ last.result = FALSE
                 /\ last.actions = <<>>
                 /\ state = prev

\* a code that does not validate, on a cart with items and a promo applied
C16_Witness ==
    /\ last.op = "applyPromoCode"
    /\ last.result = FALSE
    /\ prev.items # <<>>
    /\ prev.appliedPromoCode # null
    /\ state = prev

\* the promo status of a CartState
PromoStatus(s) ==
    IF s.appliedPromoCode = null THEN "NoPromoApplied" ELSE "PromoApplied"

\* C17: from NoPromoApplied an applyPromoCode that validates moves to
\* PromoApplied and one that does not stays in NoPromoApplied; from
\* PromoApplied removePromoCode moves to NoPromoApplied; addItem, removeItem
\* and updateQuantity never change the status.  PromoApplied is entered by a
\* validated applyPromoCode only, and left by removePromoCode or clearCart
\* only.
C17_PromoStatusMachine ==
    LET before == PromoStatus(prev)
        after == PromoStatus(state)
    IN  /\ (last.op = "applyPromoCode" /\ before = "NoPromoApplied")
               => after = (IF last.result = TRUE THEN "PromoApplied"
                           ELSE "NoPromoApplied")
        /\ (last.op = "removePromoCode" /\ before = "PromoApplied")
               => after = "NoPromoApplied"
        /\ last.op \in {"addItem", "removeItem", "updateQuantity"}
               => after = before
        /\ (before = "NoPromoApplied" /\ after = "PromoApplied")
               => (last.op = "applyPromoCode" /\ last.result = TRUE)
        /\ (before = "PromoApplied" /\ after = "NoPromoApplied")
               => last.op \in {"removePromoCode", "clearCart"}

\* removeItem takes the last line of a cart with a promo applied: the cart
\* is empty and the promo is still applied
C17_Witness ==
    /\ last.op = "removeItem"
    /\ prev.items # <<>>
    /\ state.items = <<>>
    /\ PromoStatus(prev) = "PromoApplied"
    /\ PromoStatus(state) = "PromoApplied"

\* C18: an add-to-cart request for a product id that is not in PRODUCTS
\* calls no operation of the hook: nothing is dispatched and the CartState
\* is the one before the request.
C18_UnknownProductNotAdded ==
    (/\ event.handler = "handleAddToCart"
     /\ \A i \in 1..Len(PRODUCTS) : PRODUCTS[i].id # event.productId)
        => /\ last.op # "addItem"
           /\ last.actions = <<>>
           /\ state = prev
           /\ ~Has(state.items, event.productId)

\* a request for product 5 on a cart that holds lines
C18_Witness ==
    /\ event.handler = "handleAddToCart"
    /\ event.productId = 5
    /\ prev.items # <<>>
    /\ last = NoCall
    /\ state = prev

RECURSIVE Pow10(_)
Pow10(n) == IF n = 0 THEN 1 ELSE 10 * Pow10(n - 1)

\* the number a valid floating-point text denotes is less than 1
ValueBelowOne(text) ==
    LET p == FloatParts(text)
        mantissa == DecimalValue(p.integer \o p.fraction)
        exponent == DecimalValue(p.exponent)
        up == IF p.expNegative THEN 0 ELSE exponent
        down == Len(p.fraction) + (IF p.expNegative THEN exponent ELSE 0)
    IN  p.negative \/ mantissa * Pow10(up) < Pow10(down)

\* the text is not a number, or a number less than 1
InvalidQuantityText(text) ==
    ~IsValidFloatingPointNumber(text) \/ ValueBelowOne(text)

\* C19: a quantity edit whose value is not a number or is less than 1 is not
\* passed to updateQuantity and the quantity of the line stays what it was;
\* after a blur or an Escape on such a value the input shows the quantity
\* of the line again.
C19_InvalidEditNotCommitted ==
    /\ (event.handler = "handleInputChange" /\ InvalidQuantityText(event.text))
           => (last.op # "updateQuantity" /\ state = prev)
    /\ (/\ \/ event.handler = "handleBlur"
            \/ (event.handler = "handleKeyDown" /\ event.key = "Escape")
        /\ InvalidQuantityText(event.inputValue))
           => row.inputValue = toString(QuantityIn(state.items, row.productId))

\* C20: every CartState the reducer has produced, the initialState that
\* clearCart returns among them, still has the contents (items and applied
\* promo) it was produced with, whatever operations followed.
C20_ProducedStatesUnchanged ==
    \A snapshot \in heap.produced :
        Deref(heap.objects, snapshot[1]) = snapshot[2]

\* clearCart has returned initialState after other states were produced,
\* and one of them still holds a line
C20_Witness ==
    /\ last.op = "clearCart"
    /\ heap.current = InitialStateAddress
    /\ Deref(heap.objects, heap.current) = initialState
    /\ \E snapshot \in heap.produced :
           /\ snapshot[1] # InitialStateAddress
           /\ snapshot[2].items # <<>>

\* the value the model's reducer computes is the contents of the heap's
\* current state
HeapAgreesWithState == Deref(heap.objects, heap.current) = state

\* the handlers of the five user actions that act on the cart
UserActions ==
    { "ProductCard.handleClick", "CartItemRow.handleInputChange",
      "CartItemRow.handleRemove", "PromoCodeForm.handleSubmit",
      "PromoCodeForm.handleRemove" }

\* the number of transitions the last user action triggered: the actions
\* dispatched to the reducer while its handler ran
Transitions == Len(last.actions)

\* C21 as stated: each user action in the UI (Add to Cart click,
\* quantity-input change, Remove click, promo Apply submit, promo Remove
\* click) triggers exactly one cart state transition.
C21_ExactlyOneTransition ==
    event.handler \in UserActions => Transitions = 1

\* C21, amended: each of these user actions triggers at most one cart state
\* transition: exactly one for an Add to Cart click, a Remove click and a
\* promo Remove click; a quantity-input change triggers one when its text
\* parses to an integer in 1..99 that differs from the row's last committed
\* quantity, and none otherwise; a promo Apply submit triggers one when the
\* trimmed text is a code of PROMO_CODES, and none otherwise.
C21_AtMostOneTransition ==
    /\ event.handler \in UserActions => Transitions <= 1
    /\ event.handler \in { "ProductCard.handleClick",
                           "CartItemRow.handleRemove",
                           "PromoCodeForm.handleRemove" } => Transitions = 1
    /\ event.handler = "CartItemRow.handleInputChange" =>
           LET parsed == parseInt(valueOfNumberInput(event.text))
           IN  Transitions =
                   IF /\ ~isNaN(parsed)
                      /\ parsed[1] \in 1..99
                      /\ parsed[1] # event.lastCommittedValue
                   THEN 1 ELSE 0
    /\ event.handler = "PromoCodeForm.handleSubmit" =>
           Transitions =
               IF \E i \in 1..Len(PROMO_CODES) :
                      PROMO_CODES[i].code = trim(event.form.inputValue)
               THEN 1 ELSE 0

\* a quantity above 99 was typed into a row, and a blank promo code was
\* submitted, and neither dispatched anything
C21_Witness ==
    \/ /\ event.handler = "CartItemRow.handleInputChange"
       /\ event.text = <<"1","0","0">>
       /\ Transitions = 0
       /\ state = prev
    \/ /\ event.handler = "PromoCodeForm.handleSubmit"
       /\ trim(event.form.inputValue) = <<>>
       /\ Transitions = 0
       /\ state = prev

\* C22: the totals exposed by the cart store always equal calculateCartTotals
\* of the current CartState: after every transition the subtotal,
\* discountAmount, total and itemCount read by the UI are those of the new
\* state, never of an earlier one.
C22_TotalsOfCurrentState ==
    /\ totals = calculateCartTotals(state)
    /\ totals.subtotal = roundToTwoDecimals(SumSubtotals(state.items))
    /\ totals.itemCount = calculateItemCount(state.items)

\* a transition has changed every one of the four totals
C22_Witness ==
    /\ last.op # "none"
    /\ totals.subtotal # calculateCartTotals(prev).subtotal
    /\ totals.discountAmount # calculateCartTotals(prev).discountAmount
    /\ totals.total # calculateCartTotals(prev).total
    /\ totals.itemCount # calculateCartTotals(prev).itemCount
    /\ totals = calculateCartTotals(state)

\* the cents of rounding half up, at the cent boundary, the exact decimal
\* value the operation of in is about
HalfUpCents(in) ==
    IF in.op = "roundToTwoDecimals"
    THEN (in.thousandths + 5) \div 10
    ELSE IF in.op = "calculateItemSubtotal"
    THEN in.price * in.quantity
    ELSE IF in.discount.type = "percentage"
    THEN (in.subtotal * in.discount.value + 50) \div 100
    ELSE Min(in.discount.value * 100, in.subtotal)

\* C23: monetary values are rounded to 2 decimal places with round-half-up
\* at the cent boundary at each step: the value roundToTwoDecimals, the item
\* subtotal and the discount amount return is the number of whole cents
\* nearest to the exact decimal value, a half cent going up.
C23_RoundHalfUp ==
    (output # null /\ input \in RoundInputs)
        => output = Divide(HalfUpCents(input), 100)

\* the examples of the claim: roundToTwoDecimals(10.999) = 11,
\* (10.994) = 10.99, (10.995) = 11, and 10.99 with quantity 2 gives 21.98
RoundExamples ==
    (output # null /\ input \in RoundInputs) =>
        /\ (input.op = "roundToTwoDecimals" /\ input.thousandths = 10999)
               => output = Divide(11, 1)
        /\ (input.op = "roundToTwoDecimals" /\ input.thousandths = 10994)
               => output = Divide(1099, 100)
        /\ (input.op = "roundToTwoDecimals" /\ input.thousandths = 10995)
               => output = Divide(11, 1)
        /\ (/\ input.op = "calculateItemSubtotal"
            /\ input.price = 1099
            /\ input.quantity = 2)
               => output = Divide(2198, 100)

\* the results that are not the half-up ones are those of a value on a
\* half cent
OffHalfCentRoundsNearest ==
    (/\ output # null
     /\ input \in RoundInputs
     /\ output # Divide(HalfUpCents(input), 100))
        => \/ input.op = "roundToTwoDecimals" /\ input.thousandths % 10 = 5
           \/ /\ input.op = "calculateDiscountAmount"
              /\ input.discount.type = "percentage"
              /\ (input.subtotal * input.discount.value) % 100 = 50

\* the product ids of the lines, in the order of the lines
IdsOf(items) == [i \in 1..Len(items) |-> items[i].product.id]

\* the lines of after are lines of before, one for one and in the same order
SameRelativeOrder(before, after) ==
    \A i, j \in 1..Len(after) :
        i < j =>
            /\ Has(before, after[i].product.id)
            /\ Has(before, after[j].product.id)
            /\ findIndex(before, after[i].product.id)
                   < findIndex(before, after[j].product.id)

\* C24: line items are kept in insertion order: addItem of a product not in
\* the cart appends its line at the end; addItem on a present product,
\* updateQuantity and removeItem never change the relative order of the
\* line items that remain.
C24_InsertionOrder ==
    /\ (last.op = "addItem" /\ ~Has(prev.items, last.args.product.id)) =>
           /\ Len(state.items) = Len(prev.items) + 1
           /\ SubSeq(state.items, 1, Len(prev.items)) = prev.items
           /\ state.items[Len(state.items)].product = last.args.product
    /\ (last.op = "addItem" /\ Has(prev.items, last.args.product.id)) =>
           IdsOf(state.items) = IdsOf(prev.items)
    /\ last.op = "removeItem" =>
           /\ SameRelativeOrder(prev.items, state.items)
           /\ \A i \in 1..Len(prev.items) :
                  prev.items[i].product.id # last.args.productId
                      => Has(state.items, prev.items[i].product.id)
    /\ \A productId \in 1..Len(PRODUCTS), quantity \in (0 - 1)..MaxQuantity :
           LET after == cartReducer(state,
                            [type |-> "UPDATE_QUANTITY",
                             payload |-> [productId |-> productId,
                                          quantity |-> quantity]])
           IN  /\ SameRelativeOrder(state.items, after.items)
               /\ quantity >= 1 => IdsOf(after.items) = IdsOf(state.items)
               /\ \A i \in 1..Len(state.items) :
                      state.items[i].product.id # productId
                          => Has(after.items, state.items[i].product.id)

\* the first line of a cart of four was removed and the other three are
\* left in their order, the last of them a product added after the others
C24_Witness ==
    /\ last.op = "removeItem"
    /\ Len(prev.items) = 4
    /\ prev.items[1].product.id = last.args.productId
    /\ state.items = Tail(prev.items)
    /\ IdsOf(state.items) = <<3, 1, 4>>

\* the actions the reducer is applied to: one of each kind for every product
\* and promo code of the model
ReducerActions ==
    {[type |-> "ADD_ITEM", payload |-> [product |-> p, quantity |-> 1]] :
         p \in Products}
    \cup {[type |-> "REMOVE_ITEM", payload |-> [productId |-> id]] :
              id \in ProductIds}
    \cup {[type |-> "UPDATE_QUANTITY",
           payload |-> [productId |-> id, quantity |-> q]] :
              id \in ProductIds, q \in {0, MaxQuantity}}
    \cup {[type |-> "APPLY_PROMO", payload |-> [promoCode |-> PROMO_CODES[i]]] :
              i \in 1..Len(PROMO_CODES)}
    \cup {[type |-> "REMOVE_PROMO"], [type |-> "CLEAR_CART"]}

\* C25: the cart reducer is deterministic: for every CartState and action,
\* applying the action to equal states yields equal resulting states, with
\* no dependence on hidden or global state: whenever and wherever on the
\* heap a state was produced, and whatever the heap holds besides (the
\* module-level initialState among it), the state the reducer returns for
\* it has the contents that the contents of the state and the action
\* determine.
C25_ReducerDeterministic ==
    \A snapshot \in heap.produced, action \in ReducerActions :
        LET address == snapshot[1]
            reduced == cartReducer_onHeap(heap.objects, address, action)
        IN  /\ Deref(heap.objects, address) = snapshot[2]
            /\ Deref(reduced.objects, reduced.result)
                   = cartReducer(snapshot[2], action)

\* states of equal contents, holding a line, were produced at two
\* addresses, and clearCart has returned the module-level initialState
C25_Witness ==
    /\ \E s1, s2 \in heap.produced :
           /\ s1[1] # s2[1]
           /\ s1[2] = s2[2]
           /\ s1[2].items # <<>>
    /\ last.op = "clearCart"

\* the text is the decimal numeral of an integer in 1..99
IsQuantityNumeral(text) ==
    /\ text # <<>>
    /\ \A i \in 1..Len(text) : IsDigit(text[i])
    /\ DecimalValue(text) \in 1..99

\* C26: when the quantity input of a cart row changes to a valid integer in
\* 1..99 that differs from the last committed quantity,
\* onUpdateQuantity(productId, value) is called on that change, with no
\* blur or Enter; when the value equals the last committed quantity no call
\* is made.
C26_ValidChangeCommitsImmediately ==
    (event.handler = "handleInputChange" /\ IsQuantityNumeral(event.text)) =>
        IF DecimalValue(event.text) # event.lastCommittedValue
        THEN /\ last.op = "updateQuantity"
             /\ last.args = [productId |-> row.productId,
                             quantity |-> DecimalValue(event.text)]
             /\ QuantityIn(state.items, row.productId) = DecimalValue(event.text)
             /\ row.lastCommittedValue = DecimalValue(event.text)
        ELSE /\ last = NoCall
             /\ state = prev

\* the input of a row whose line has quantity 3 was changed to 99, and the
\* line has quantity 99 with no blur or key in between
C26_Witness ==
    /\ event.handler = "handleInputChange"
    /\ event.text = <<"9","9">>
    /\ event.lastCommittedValue = 3
    /\ last.op = "updateQuantity"
    /\ QuantityIn(state.items, row.productId) = 99

\* C27: promo form validation: submitting an empty or whitespace-only code
\* puts the form in the error state without calling onApplyPromoCode;
\* submitting a non-empty code calls onApplyPromoCode once with the trimmed,
\* uppercased text, and the form goes to success (input cleared) when it
\* returns true and to error when it returns false; the next input change
\* after an error returns the form to idle.
C27_PromoFormValidation ==
    /\ event.handler = "PromoCodeForm.handleSubmit" =>
           IF Core(event.typed) = <<>>
           THEN /\ last = NoCall
                /\ state = prev
                /\ ui.form.validationState = "error"
                /\ ui.form.errorMessage # ""
           ELSE /\ last.op = "applyPromoCode"
                /\ IsUpperCased(last.args.code, Core(event.typed))
                /\ last.result = TRUE =>
                       /\ ui.form.validationState = "success"
                       /\ ui.form.inputValue = <<>>
                /\ last.result = FALSE =>
                       /\ ui.form.validationState = "error"
                       /\ ui.form.errorMessage # ""
                       /\ state = prev
    /\ (/\ event.handler = "PromoCodeForm.handleInputChange"
        /\ event.form.validationState = "error") =>
           /\ ui.form.validationState = "idle"
           /\ ui.form.errorMessage = ""

\* a blank code was submitted and rejected, and the next change of the
\* input has returned the form to idle
C27_Witness ==
    /\ event.handler = "PromoCodeForm.handleInputChange"
    /\ event.form.validationState = "error"
    /\ event.form.errorMessage = "Please enter a promo code"
    /\ ui.form.validationState = "idle"

\* the last event is an activation of a product card's Add to Cart button:
\* a click, or Enter or space pressed on it
AddToCartActivated ==
    \/ event.handler = "ProductCard.handleClick"
    \/ /\ event.handler = "ProductCard.handleKeyDown"
       /\ event.key \in {"Enter", " "}

\* C28: each activation of a product's Add to Cart button requests addItem
\* for that product with quantity exactly 1, so one click on a catalog
\* product increases that product's cart quantity by exactly 1, creating
\* the line with quantity 1 if it is absent.
C28_AddToCartAddsOne ==
    AddToCartActivated =>
        /\ last.op = "addItem"
        /\ last.args.product = findProductById(event.productId)
        /\ last.args.quantity = <<1>>
        /\ Len(last.actions) = 1
        /\ QuantityIn(state.items, event.productId)
               = QuantityIn(prev.items, event.productId) + 1
        /\ Cardinality(LinesOf(state.items, event.productId)) = 1
        /\ \A id \in 1..Len(PRODUCTS) :
               id # event.productId
                   => QuantityIn(state.items, id) = QuantityIn(prev.items, id)

\* a click on a product not in the cart has created its line with quantity
\* 1, after a line whose quantity earlier clicks have raised above 1
C28_Witness ==
    /\ event.handler = "ProductCard.handleClick"
    /\ Len(prev.items) = 1
    /\ prev.items[1].quantity > 1
    /\ ~Has(prev.items, event.productId)
    /\ state.items[2] = [product |-> findProductById(event.productId),
                         quantity |-> 1]

\* C29: frame of the reducer: addItem, removeItem and updateQuantity leave
\* the applied promo code unchanged, and applyPromoCode and removePromoCode
\* leave the line items unchanged; in particular a promo stays applied when
\* the last item is removed, and applies again to items added afterwards.
C29_Frame ==
    /\ last.op \in {"addItem", "removeItem", "updateQuantity"} =>
           state.appliedPromoCode = prev.appliedPromoCode
    /\ last.op \in {"applyPromoCode", "removePromoCode"} =>
           state.items = prev.items
    /\ \A action \in ReducerActions :
           LET after == cartReducer(state, action)
           IN  /\ action.type \in {"ADD_ITEM", "REMOVE_ITEM", "UPDATE_QUANTITY"}
                      => after.appliedPromoCode = state.appliedPromoCode
               /\ action.type \in {"APPLY_PROMO", "REMOVE_PROMO"}
                      => after.items = state.items
    /\ (state.appliedPromoCode # null /\ state.items # <<>>) =>
           /\ totals.discountAmount > 0
           /\ totals.discountAmount =
                  calculateDiscountAmount(totals.subtotal,
                                          state.appliedPromoCode.discount)
           /\ totals.total = totals.subtotal - totals.discountAmount

\* a product was added by a click to a cart emptied while a promo code was
\* applied (the form that applies one is shown for a cart with lines only),
\* and the promo code is still applied and discounts the new line
C29_Witness ==
    /\ event.handler = "ProductCard.handleClick"
    /\ prev.items = <<>>
    /\ prev.appliedPromoCode # null
    /\ state.appliedPromoCode = prev.appliedPromoCode
    /\ Len(state.items) = 1
    /\ totals.discountAmount > 0

\* the cart shows one row for each line, and each row's last committed
\* quantity is the quantity of its line
RowsAgreeWithLines ==
    /\ DOMAIN ui.rows = {state.items[i].product.id : i \in 1..Len(state.items)}
    /\ \A id \in DOMAIN ui.rows :
           ui.rows[id].lastCommittedValue = QuantityIn(state.items, id)
    /\ (ui.form = null) = (state.items = <<>>)

\* C30: in every state reachable through the presentation layer alone (Add
\* to Cart clicks, quantity-input edits, Remove clicks, promo apply and
\* remove), every line item has an integer quantity >= 1, line items have
\* distinct product ids, and every updateQuantity dispatched by the
\* quantity input carries a quantity in 1..99.
C30_PresentationLayerQuantities ==
    /\ \A i \in 1..Len(state.items) :
           /\ state.items[i].quantity \in Nat
           /\ state.items[i].quantity >= 1
           /\ Cardinality(LinesOf(state.items, state.items[i].product.id)) = 1
    /\ last.op = "updateQuantity" =>
           /\ event.handler = "CartItemRow.handleInputChange"
           /\ last.args.quantity \in 1..99
           /\ last.actions[1].payload.quantity \in 1..99

\* texts out of range (0, 100) and in range were typed into the rows of a
\* cart of two lines: the last one, 100, was not dispatched, and the lines
\* have the quantities typed and clicked before
C30_Witness ==
    /\ event.handler = "CartItemRow.handleInputChange"
    /\ event.text = <<"1","0","0">>
    /\ last = NoCall
    /\ Len(state.items) = 2
    /\ state.items[1].quantity = 2
    /\ state.items[2].quantity = MaxQuantity

\* C31: in every state reached through the presentation layer no line's
\* quantity is above the quantity input's maximum of 99, repeated Add to
\* Cart clicks on a product already in the cart included.
C31_QuantityWithinInputMax ==
    \A i \in 1..Len(state.items) :
        state.items[i].quantity <= QuantityInputMax

\* the quantity input of the row has just been left: by a blur, by Enter
\* (which blurs it) or by Escape
InputLeft ==
    \/ event.handler = "handleBlur"
    \/ event.handler = "handleKeyDown" /\ event.key \in {"Enter", "Escape"}

\* the quantity of the row's line has just been changed from the parent
ChangedFromParent ==
    /\ event.handler = "handleAddToCart"
    /\ QuantityIn(state.items, row.productId)
           # QuantityIn(prev.items, row.productId)

\* the text shows the integer quantity: a numeral of digits with that value
Displays(text, quantity) ==
    /\ text # <<>>
    /\ \A i \in 1..Len(text) : IsDigit(text[i])
    /\ DecimalValue(text) = quantity

\* C32: whenever the quantity input of a row is not being edited (after a
\* blur, after Escape, or after the line's quantity changed from the
\* parent), the value it displays is the cart's quantity of that line,
\* edits left uncommitted because they were above 99 included.
C32_DisplayIsCartQuantity ==
    (InputLeft \/ ChangedFromParent)
        => Displays(row.inputValue, QuantityIn(state.items, row.productId))

\* C33: for a cart without line items calculateCartTotals returns subtotal
\* 0, discountAmount 0, total 0 and itemCount 0, with no promo code and
\* with a percentage or a fixed promo code applied.
C33_EmptyCartTotals ==
    (last.op = "calculateCartTotals" /\ state.items = <<>>)
        => totals = [subtotal |-> 0, discountAmount |-> 0,
                     total |-> 0, itemCount |-> 0]

\* the totals of an empty cart with a fixed promo of 10.00 were calculated
C33_Witness ==
    /\ last.op = "calculateCartTotals"
    /\ state.items = <<>>
    /\ state.appliedPromoCode # null
    /\ state.appliedPromoCode.discount = [type |-> "fixed", value |-> 1000 * Cent]
    /\ totals.discountAmount = 0

\* Cart shows its empty view: no row and no promo form is mounted
ShowsEmptyCart == DOMAIN ui.rows = {} /\ ui.form = null

\* the store's isEmpty is true exactly when totals.itemCount is 0
EmptyIffNothingCounted == isEmpty(state) <=> totals.itemCount = 0

\* C34: in every reachable state the store's isEmpty is true exactly when
\* the cart has no line items, which is exactly when totals.itemCount is 0,
\* and the cart shows its empty view exactly in those states.
C34_EmptyCart ==
    /\ isEmpty(state) <=> state.items = <<>>
    /\ EmptyIffNothingCounted
    /\ ShowsEmptyCart <=> isEmpty(state)
    /\ ~ShowsEmptyCart
           => DOMAIN ui.rows = {state.items[i].product.id :
                                    i \in 1..Len(state.items)}

\* the last line of the cart was removed with its row's Remove, and the
\* cart went from its rows and promo form to the empty view
C34_Witness ==
    /\ event.handler = "CartItemRow.handleRemove"
    /\ prev.items # <<>>
    /\ isEmpty(state)
    /\ totals.itemCount = 0
    /\ ShowsEmptyCart

\* the state after dispatching REMOVE_ITEM of productId on s
Removed(s, productId) ==
    cartReducer(s, [type |-> "REMOVE_ITEM",
                    payload |-> [productId |-> productId]])

\* the state after dispatching ADD_ITEM of product and quantity on s
Added(s, product, quantity) ==
    cartReducer(s, [type |-> "ADD_ITEM",
                    payload |-> [product |-> product, quantity |-> quantity]])

\* C35: removeItem is idempotent (removeItem(id) applied twice gives what it
\* gives applied once), and for a product p not in the cart and a quantity
\* q >= 1, addItem(p, q) followed by removeItem(p.id) gives a state with the
\* line items, their order and the applied promo of before.
C35_RemoveItemAlgebra ==
    /\ \A productId \in ProductIds :
           Removed(Removed(state, productId), productId)
               = Removed(state, productId)
    /\ (last.op = "removeItem" /\ ~Has(prev.items, last.args.productId))
           => state = prev
    /\ \A product \in Products, q \in 1..MaxQuantity :
           ~Has(state.items, product.id)
               => LET s == Removed(Added(state, product, q), product.id)
                  IN  /\ s.items = state.items
                      /\ s.appliedPromoCode = state.appliedPromoCode

\* removeItem has removed a line of two units from a cart that keeps
\* another line and its promo: the second removal and the addItem and
\* removeItem of the removed product are those of this state
C35_Witness ==
    /\ last.op = "removeItem"
    /\ QuantityIn(prev.items, last.args.productId) = 2
    /\ ~Has(state.items, last.args.productId)
    /\ state.items # <<>>
    /\ state.appliedPromoCode # null

============================================================================
